---- MODULE Spec2Model ----
(***************************************************************************)
(* Model of kitium-ai/test-db: the MultiDatabaseCoordinator                *)
(* (src/src/utils/coordination.ts) over PostgresTestDB / MongoDBTestDB     *)
(* handles.  One call of the coordinator is a record call[c]; every await  *)
(* of the TypeScript code that talks to an engine is one step of the       *)
(* model, with the engine's answer (success or failure) chosen by \E.      *)
(***************************************************************************)
EXTENDS Integers, Sequences, FiniteSets, TLC

VARIABLES
    call,                \* call id -> the frame of one executeXxx call
    activeTransactions,  \* MultiDatabaseCoordinator.activeTransactions
    clients,             \* every PoolClient ever leased from a pool
    state,               \* handle -> ConnectionState
    pool,                \* handle -> the Pool / MongoClient it holds (NoPool: null)
    harness,             \* variables captured by the closures of a test harness
    engine               \* what the database engines hold and were asked to do

vars == <<call, activeTransactions, clients, state, pool, harness, engine>>

(***************************************************************************)
(* Bounds                                                                  *)
(***************************************************************************)
MaxOps == 3              \* longest operations list passed to a call
MaxCalls == 3            \* connect() / disconnect() calls made on the handles
MaxClientCalls == 2      \* query / leaseClient / transaction calls made on a handle

(***************************************************************************)
(* Handles and their configuration                                         *)
(***************************************************************************)
PostgresHandles == {"pgA", "pgB"}
MongoHandles == {"mongoA"}
\* a participant that is neither a PostgresTestDB nor a MongoDBTestDB but
\* still answers getConfig() (a test double, a handle of another engine)
OtherHandles == {"other"}
Handles == PostgresHandles \cup MongoHandles \cup OtherHandles

ConnectionState == {"disconnected", "connecting", "connected", "disconnecting"}

DefaultPort == 5432

getConfig(database) ==
    CASE database = "pgA" ->
            [host |-> "localhost", port |-> DefaultPort, database |-> "app"]
      [] database = "pgB" ->
            [host |-> "localhost", port |-> DefaultPort, database |-> "audit"]
      [] database = "mongoA" ->
            [uri |-> "mongodb://localhost:27017", database |-> "docs"]
      [] OTHER ->
            [uri |-> "memory://", database |-> "double"]

getDatabaseId(database) ==
    LET config == getConfig(database)
    IN  IF "host" \in DOMAIN config
        THEN "postgres://" \o config.host \o ":" \o ToString(config.port)
                 \o "/" \o config.database
        ELSE "mongodb://" \o config.database

isConnected(database) == state[database] = "connected"

\* this.pool / this.client of a handle: null, or the object made by the
\* connect() call of that number
NoPool == 0

\* no test harness is installed; the engines are not looked at
NoHarness == <<>>
NoEngine == <<>>

\* a handle that is connected was connected by one earlier connect() call
PoolsOf(states) ==
    [database \in Handles |-> IF states[database] = "connected" THEN NoPool + 1 ELSE NoPool]

(***************************************************************************)
(* Inputs of a call                                                        *)
(***************************************************************************)
RECURSIVE SeqsUpTo(_, _)
SeqsUpTo(S, n) ==
    IF n = 0 THEN {<<>>}
    ELSE LET shorter == SeqsUpTo(S, n - 1)
         IN  shorter \cup {Append(s, x) : s \in {t \in shorter : Len(t) = n - 1}, x \in S}

\* a DatabaseOperation: the participant; its unit of work succeeds or fails
\* when it is invoked
OperationLists == SeqsUpTo([database : Handles], MaxOps)

\* timeout 0: no timeout given (`if (config.timeout)` is false)
TransactionConfigs ==
    [isolation : {"read_committed", "serializable"}, timeout : {0, 5000}]

createInitialResult(transactionId) ==
    [success |-> TRUE, transactionId |-> transactionId,
     committed |-> <<>>, rolledBack |-> <<>>, errors |-> <<>>]

NewCall(mode, transactionId, operations, config, compensations) ==
    [mode |-> mode,
     operations |-> operations,
     config |-> config,
     compensations |-> compensations,
     pc |-> "span",
     index |-> 1,
     preparedTransactions |-> <<>>,
     completedOperations |-> <<>>,
     settled |-> [i \in 1..Len(operations) |-> "idle"],
     operationPromise |-> "none",
     result |-> createInitialResult(transactionId),
     promise |-> "pending",
     returned |-> FALSE,
     atReturn |-> createInitialResult(transactionId),
     log |-> <<>>]

pushError(result, database, error) ==
    [result EXCEPT !.errors = Append(@, [database |-> database, error |-> error])]

Logged(r, ev, i, ok) == [r EXCEPT !.log = Append(@, [ev |-> ev, i |-> i, ok |-> ok])]


(***************************************************************************)
(* Leased pool clients                                                     *)
(***************************************************************************)
lease(cl, owner, database) ==
    Append(cl, [database |-> database, owner |-> owner, tx |-> "none", released |-> 0])

query(cl, client, tx) == [cl EXCEPT ![client].tx = tx]

release(cl, client) == [cl EXCEPT ![client].released = @ + 1]

(***************************************************************************)
(* beginTransaction: what the engine answers is `outcome`                  *)
(***************************************************************************)
BeginOutcomes(database, config) ==
    IF database \in PostgresHandles
    THEN IF ~isConnected(database)
         THEN {"notConnected"}
         ELSE {"ok", "leaseFail", "beginFail"}
                  \cup (IF config.isolation # "read_committed" THEN {"isolationFail"} ELSE {})
                  \cup (IF config.timeout # 0 THEN {"timeoutFail"} ELSE {})
    ELSE IF database \in MongoHandles
         THEN {"ok"}
         ELSE {"unsupported"}

\* mutant: a participant of an unsupported type is handed back like a
\* document-store handle instead of throwing
beginTransactionAcceptsAny(cl, owner, database, config, outcome) ==
    LET client == Len(cl) + 1
        threw(newClients, message) ==
            [clients |-> newClients, threw |-> TRUE, error |-> message]
    IN  IF database \in PostgresHandles
        THEN CASE outcome = "notConnected" -> threw(cl, "Database is not connected")
               [] outcome = "leaseFail" -> threw(cl, "timeout exceeded when trying to connect")
               [] outcome = "beginFail" ->
                      threw(lease(cl, owner, database), "BEGIN failed")
               [] outcome = "isolationFail" ->
                      threw(query(lease(cl, owner, database), client, "active"),
                            "SET TRANSACTION failed")
               [] outcome = "timeoutFail" ->
                      threw(query(lease(cl, owner, database), client, "active"),
                            "SET LOCAL failed")
               [] OTHER ->
                      [clients |-> query(lease(cl, owner, database), client, "active"),
                       threw |-> FALSE, client |-> client, error |-> ""]
        ELSE [clients |-> cl, threw |-> FALSE, client |-> database, error |-> ""]

beginTransaction(cl, owner, database, config, outcome) ==
    LET client == Len(cl) + 1
        threw(newClients, message) ==
            [clients |-> newClients, threw |-> TRUE, error |-> message]
    IN  IF database \in PostgresHandles
        THEN CASE outcome = "notConnected" -> threw(cl, "Database is not connected")
               [] outcome = "leaseFail" -> threw(cl, "timeout exceeded when trying to connect")
               [] outcome = "beginFail" ->
                      threw(lease(cl, owner, database), "BEGIN failed")
               [] outcome = "isolationFail" ->
                      threw(query(lease(cl, owner, database), client, "active"),
                            "SET TRANSACTION failed")
               [] outcome = "timeoutFail" ->
                      threw(query(lease(cl, owner, database), client, "active"),
                            "SET LOCAL failed")
               [] OTHER ->
                      [clients |-> query(lease(cl, owner, database), client, "active"),
                       threw |-> FALSE, client |-> client, error |-> ""]
        ELSE IF database \in MongoHandles
             THEN [clients |-> cl, threw |-> FALSE, client |-> database, error |-> ""]
             ELSE threw(cl, "Unsupported database type")

(***************************************************************************)
(* executeCoordinatedTransaction                                           *)
(***************************************************************************)
\* mutant: the prepare loop stops at the first failed prepare
prepareStopsAtFailure(r, cl, owner, outcome) ==
    LET operation == r.operations[r.index]
        begun == beginTransaction(cl, owner, operation.database, r.config, outcome)
        logged == Logged(r, "prepare", r.index, ~begun.threw)
    IN  [clients |-> begun.clients,
         r |-> IF begun.threw
               THEN [logged EXCEPT
                       !.result = [pushError(@, getDatabaseId(operation.database), begun.error)
                                     EXCEPT !.success = FALSE],
                       !.index = Len(r.operations) + 1]
               ELSE [logged EXCEPT
                       !.preparedTransactions =
                           Append(@, [database |-> operation.database,
                                      client |-> begun.client,
                                      operation |-> r.index]),
                       !.index = @ + 1]]

\* one iteration of the loop of prepareCoordinatedTransactions
prepareCoordinatedTransactions(r, cl, owner, outcome) ==
    LET operation == r.operations[r.index]
        begun == beginTransaction(cl, owner, operation.database, r.config, outcome)
        logged == Logged(r, "prepare", r.index, ~begun.threw)
    IN  [clients |-> begun.clients,
         r |-> IF begun.threw
               THEN [logged EXCEPT
                       !.result = [pushError(@, getDatabaseId(operation.database), begun.error)
                                     EXCEPT !.success = FALSE],
                       !.index = @ + 1]
               ELSE [logged EXCEPT
                       !.preparedTransactions =
                           Append(@, [database |-> operation.database,
                                      client |-> begun.client,
                                      operation |-> r.index]),
                       !.index = @ + 1]]



\* what a unit of work leaves in the engine when it resolves: run against a
\* leased client its statements belong to that client's transaction; run
\* against a document-store handle, which is what beginTransaction hands
\* back for it, its write is applied at once, outside any session
unitOfWork(en, owner, prepared, ok) ==
    IF ok /\ prepared.database \in MongoHandles
    THEN Append(en, [database |-> prepared.database, owner |-> owner,
                     operation |-> prepared.operation])
    ELSE en
\* mutant: the loop of executePreparedTransactions goes on after a failed unit
\* of work
executeContinuesAfterFailure(r, ok) ==
    LET prepared == r.preparedTransactions[r.index]
        logged == Logged(r, "unit", prepared.operation, ok)
    IN  IF ok
        THEN [logged EXCEPT
                !.result.committed = Append(@, getDatabaseId(prepared.database)),
                !.index = @ + 1]
        ELSE [logged EXCEPT
                !.result = [pushError(@, getDatabaseId(prepared.database), "unit of work failed")
                              EXCEPT !.success = FALSE],
                !.index = @ + 1]
\* one iteration of the loop of executePreparedTransactions; ok: the unit of
\* work resolved (TRUE) or rejected (FALSE)
executePreparedTransactions(r, ok) ==
    LET prepared == r.preparedTransactions[r.index]
        logged == Logged(r, "unit", prepared.operation, ok)
    IN  IF ok
        THEN [logged EXCEPT
                !.result.committed = Append(@, getDatabaseId(prepared.database)),
                !.index = @ + 1]
        ELSE [logged EXCEPT
                !.result = [pushError(@, getDatabaseId(prepared.database), "unit of work failed")
                              EXCEPT !.success = FALSE],
                !.index = Len(r.preparedTransactions) + 1]

CommitFailed == "Commit failed: " \o "COMMIT failed"
RollbackFailed == "Rollback failed: " \o "ROLLBACK failed"
CompensationFailed == "Compensation failed: " \o "compensation failed"

FinalizeOutcomes(database) ==
    IF database \in PostgresHandles THEN {TRUE, FALSE} ELSE {TRUE}


\* mutant: a failed COMMIT is recorded in errors and success is left alone
commitAllKeepsSuccess(r, cl, ok) ==
    LET prepared == r.preparedTransactions[r.index]
        logged == Logged(r, "commit", prepared.operation, ok)
    IN  IF prepared.database \in PostgresHandles
        THEN IF ok
             THEN [clients |-> release(query(cl, prepared.client, "committed"), prepared.client),
                   r |-> [logged EXCEPT !.index = @ + 1]]
             ELSE [clients |-> cl,
                   r |-> [logged EXCEPT
                            !.result = pushError(@, getDatabaseId(prepared.database),
                                                 CommitFailed),
                            !.index = @ + 1]]
        ELSE [clients |-> cl, r |-> [logged EXCEPT !.index = @ + 1]]

\* mutant: a failed COMMIT ends the loop of commitAll
commitAllStopsAtFailure(r, cl, ok) ==
    LET prepared == r.preparedTransactions[r.index]
        logged == Logged(r, "commit", prepared.operation, ok)
    IN  IF prepared.database \in PostgresHandles
        THEN IF ok
             THEN [clients |-> release(query(cl, prepared.client, "committed"), prepared.client),
                   r |-> [logged EXCEPT !.index = @ + 1]]
             ELSE [clients |-> cl,
                   r |-> [logged EXCEPT
                            !.result = [pushError(@, getDatabaseId(prepared.database),
                                                  CommitFailed)
                                          EXCEPT !.success = FALSE],
                            !.index = Len(r.preparedTransactions) + 1]]
        ELSE [clients |-> cl, r |-> [logged EXCEPT !.index = @ + 1]]
\* one iteration of the loop of commitAll; ok: COMMIT resolved or rejected
commitAll(r, cl, ok) ==
    LET prepared == r.preparedTransactions[r.index]
        logged == Logged(r, "commit", prepared.operation, ok)
    IN  IF prepared.database \in PostgresHandles
        THEN IF ok
             THEN [clients |-> release(query(cl, prepared.client, "committed"), prepared.client),
                   r |-> [logged EXCEPT !.index = @ + 1]]
             ELSE [clients |-> cl,
                   r |-> [logged EXCEPT
                            !.result = [pushError(@, getDatabaseId(prepared.database),
                                                  CommitFailed)
                                          EXCEPT !.success = FALSE],
                            !.index = @ + 1]]
        ELSE [clients |-> cl, r |-> [logged EXCEPT !.index = @ + 1]]

\* mutant: a failed ROLLBACK ends the loop of rollbackAll
rollbackAllStopsAtFailure(r, cl, ok) ==
    LET prepared == r.preparedTransactions[r.index]
        logged == Logged(r, "rollback", prepared.operation, ok)
        recorded == [logged EXCEPT
                       !.result.rolledBack = Append(@, getDatabaseId(prepared.database)),
                       !.index = @ + 1]
    IN  IF prepared.database \in PostgresHandles
        THEN IF ok
             THEN [clients |-> release(query(cl, prepared.client, "rolledBack"), prepared.client),
                   r |-> recorded]
             ELSE [clients |-> cl,
                   r |-> [logged EXCEPT
                            !.result = pushError(@, getDatabaseId(prepared.database),
                                                 RollbackFailed),
                            !.index = Len(r.preparedTransactions) + 1]]
        ELSE [clients |-> cl, r |-> recorded]


\* mutant: rollbackAll reports only the participants it sent a ROLLBACK to
rollbackAllSkipsDocumentStores(r, cl, ok) ==
    LET prepared == r.preparedTransactions[r.index]
        logged == Logged(r, "rollback", prepared.operation, ok)
        recorded == [logged EXCEPT
                       !.result.rolledBack = Append(@, getDatabaseId(prepared.database)),
                       !.index = @ + 1]
    IN  IF prepared.database \in PostgresHandles
        THEN IF ok
             THEN [clients |-> release(query(cl, prepared.client, "rolledBack"), prepared.client),
                   r |-> recorded]
             ELSE [clients |-> cl,
                   r |-> [logged EXCEPT
                            !.result = pushError(@, getDatabaseId(prepared.database),
                                                 RollbackFailed),
                            !.index = @ + 1]]
        ELSE [clients |-> cl, r |-> [logged EXCEPT !.index = @ + 1]]
\* one iteration of the loop of rollbackAll; ok: ROLLBACK resolved or rejected
rollbackAll(r, cl, ok) ==
    LET prepared == r.preparedTransactions[r.index]
        logged == Logged(r, "rollback", prepared.operation, ok)
        recorded == [logged EXCEPT
                       !.result.rolledBack = Append(@, getDatabaseId(prepared.database)),
                       !.index = @ + 1]
    IN  IF prepared.database \in PostgresHandles
        THEN IF ok
             THEN [clients |-> release(query(cl, prepared.client, "rolledBack"), prepared.client),
                   r |-> recorded]
             ELSE [clients |-> cl,
                   r |-> [logged EXCEPT
                            !.result = pushError(@, getDatabaseId(prepared.database),
                                                 RollbackFailed),
                            !.index = @ + 1]]
        ELSE [clients |-> cl, r |-> recorded]

\* mutant: the test of finalizePreparedTransactions inverted
finalizeInverted(r) ==
    [r EXCEPT !.pc = IF r.result.success THEN "rollback" ELSE "commit", !.index = 1]

\* finalizePreparedTransactions: which loop runs
finalizePreparedTransactions(r) ==
    [r EXCEPT !.pc = IF r.result.success THEN "commit" ELSE "rollback", !.index = 1]

\* mutant: executePreparedTransactions without its `if (!result.success) return`
AdvanceWithoutSuccessTest(r) ==
    CASE r.pc = "prepare" /\ r.index > Len(r.operations) ->
            [r EXCEPT !.pc = "execute", !.index = 1]
      [] r.pc = "execute" /\ r.index > Len(r.preparedTransactions) ->
            finalizePreparedTransactions(r)
      [] r.pc \in {"commit", "rollback"} /\ r.index > Len(r.preparedTransactions) ->
            [r EXCEPT !.pc = "return"]
      [] OTHER -> r


\* mutant: a commit phase that recorded a failure is followed by a rollback
\* phase over the same prepared transactions
AdvanceRollsBackAfterFailedCommit(r) ==
    CASE r.pc = "prepare" /\ r.index > Len(r.operations) ->
            IF r.result.success
            THEN [r EXCEPT !.pc = "execute", !.index = 1]
            ELSE finalizePreparedTransactions(r)
      [] r.pc = "execute" /\ r.index > Len(r.preparedTransactions) ->
            finalizePreparedTransactions(r)
      [] r.pc = "commit" /\ r.index > Len(r.preparedTransactions) ->
            IF r.result.success
            THEN [r EXCEPT !.pc = "return"]
            ELSE [r EXCEPT !.pc = "rollback", !.index = 1]
      [] r.pc = "rollback" /\ r.index > Len(r.preparedTransactions) ->
            [r EXCEPT !.pc = "return"]
      [] OTHER -> r
\* control flow of runCoordinatedTransaction between two awaits: leave a loop
\* whose index ran past its list, enter the next phase
AdvanceCoordinated(r) ==
    CASE r.pc = "prepare" /\ r.index > Len(r.operations) ->
            IF r.result.success
            THEN [r EXCEPT !.pc = "execute", !.index = 1]
            ELSE finalizePreparedTransactions(r)
      [] r.pc = "execute" /\ r.index > Len(r.preparedTransactions) ->
            finalizePreparedTransactions(r)
      [] r.pc \in {"commit", "rollback"} /\ r.index > Len(r.preparedTransactions) ->
            [r EXCEPT !.pc = "return"]
      [] OTHER -> r

runCoordinatedTransaction(r) ==
    AdvanceCoordinated(AdvanceCoordinated(AdvanceCoordinated(r)))


(***************************************************************************)
(* executeSagaTransaction                                                  *)
(***************************************************************************)
\* mutant: the failing operation is pushed to completedOperations too
executeSagaCompletesFailed(r, ok) ==
    LET operation == r.operations[r.index]
        logged == Logged(r, "saga", r.index, ok)
    IN  IF ok
        THEN [logged EXCEPT
                !.result.committed = Append(@, getDatabaseId(operation.database)),
                !.completedOperations = Append(@, r.index),
                !.index = @ + 1]
        ELSE [logged EXCEPT
                !.result = [pushError(@, getDatabaseId(operation.database), "operation failed")
                              EXCEPT !.success = FALSE],
                !.completedOperations = Append(@, r.index),
                !.pc = "compensate",
                !.index = Len(r.completedOperations) + 1]


\* mutant: the loop of executeSagaOperations records a failed operation and
\* goes on with the next one
executeSagaContinuesAfterFailure(r, ok) ==
    LET operation == r.operations[r.index]
        logged == Logged(r, "saga", r.index, ok)
    IN  IF ok
        THEN [logged EXCEPT
                !.result.committed = Append(@, getDatabaseId(operation.database)),
                !.completedOperations = Append(@, r.index),
                !.index = @ + 1]
        ELSE [logged EXCEPT
                !.result = [pushError(@, getDatabaseId(operation.database), "operation failed")
                              EXCEPT !.success = FALSE],
                !.index = @ + 1]
\* one iteration of the loop of executeSagaOperations; ok: the operation,
\* run on its participant's handle, resolved or rejected
executeSagaOperations(r, ok) ==
    LET operation == r.operations[r.index]
        logged == Logged(r, "saga", r.index, ok)
    IN  IF ok
        THEN [logged EXCEPT
                !.result.committed = Append(@, getDatabaseId(operation.database)),
                !.completedOperations = Append(@, r.index),
                !.index = @ + 1]
        ELSE [logged EXCEPT
                !.result = [pushError(@, getDatabaseId(operation.database), "operation failed")
                              EXCEPT !.success = FALSE],
                !.pc = "compensate",
                !.index = Len(r.completedOperations)]

\* `compensation && operation` of executeCompensations
hasCompensation(r, index) ==
    index \in DOMAIN r.compensations /\ index \in DOMAIN r.completedOperations

\* mutant: a failed compensation ends the loop of executeCompensations
executeCompensationsStopsAtFailure(r, ok) ==
    LET operation == r.operations[r.completedOperations[r.index]]
        logged == Logged(r, "compensation", r.completedOperations[r.index], ok)
    IN  IF ok
        THEN [logged EXCEPT
                !.result.rolledBack = Append(@, getDatabaseId(operation.database)),
                !.index = @ - 1]
        ELSE [logged EXCEPT
                !.result = pushError(@, getDatabaseId(operation.database), CompensationFailed),
                !.index = 0]

\* one iteration of the loop of executeCompensations that awaits a
\* compensation; ok: the compensation resolved or rejected
executeCompensations(r, ok) ==
    LET operation == r.operations[r.completedOperations[r.index]]
        logged == Logged(r, "compensation", r.completedOperations[r.index], ok)
    IN  IF ok
        THEN [logged EXCEPT
                !.result.rolledBack = Append(@, getDatabaseId(operation.database)),
                !.index = @ - 1]
        ELSE [logged EXCEPT
                !.result = pushError(@, getDatabaseId(operation.database),
                                     CompensationFailed),
                !.index = @ - 1]

\* the iterations of executeCompensations that find no compensation do not
\* await: the loop runs on to the next index that has one
RECURSIVE nextCompensation(_, _)
nextCompensation(r, index) ==
    IF index < 1 \/ hasCompensation(r, index) THEN index
    ELSE nextCompensation(r, index - 1)

runSagaTransaction(r) ==
    CASE r.pc = "saga" /\ r.index > Len(r.operations) -> [r EXCEPT !.pc = "return"]
      [] r.pc = "compensate" ->
            LET index == nextCompensation(r, r.index)
            IN  IF index < 1 THEN [r EXCEPT !.pc = "return", !.index = index]
                ELSE [r EXCEPT !.index = index]
      [] OTHER -> r

(***************************************************************************)
(* executeEventuallyConsistent                                             *)
(***************************************************************************)
\* the loop over the results of Promise.allSettled, in input order
RECURSIVE collectSettled(_, _, _)
collectSettled(result, r, i) ==
    IF i > Len(r.operations) THEN result
    ELSE collectSettled(
             IF r.settled[i] = "fulfilled"
             THEN [result EXCEPT !.committed = Append(@, getDatabaseId(r.operations[i].database))]
             ELSE [pushError(result, "eventual", "operation failed") EXCEPT !.success = FALSE],
             r, i + 1)


\* mutant: once the entry point has returned, the settled operations are no
\* longer written to the result
runEventuallyConsistentOperationsUntilReturn(r) ==
    IF r.returned
    THEN [r EXCEPT !.operationPromise = "resolved"]
    ELSE [r EXCEPT !.result = collectSettled(r.result, r, 1), !.operationPromise = "resolved"]
runEventuallyConsistentOperations(r) ==
    [r EXCEPT !.result = collectSettled(r.result, r, 1), !.operationPromise = "resolved"]

\* mutant: the race cancels the operations that are still running
waitForConsistencyCancels(r) ==
    IF r.pc = "waiting"
    THEN [r EXCEPT !.pc = "return",
                   !.settled = [i \in DOMAIN @ |->
                                   IF @[i] = "running" THEN "cancelled" ELSE @[i]]]
    ELSE r

\* Promise.race of waitForConsistency: the first of the two promises to
\* settle lets the call go on; the other is left alone
waitForConsistency(r) ==
    IF r.pc = "waiting" THEN [r EXCEPT !.pc = "return"] ELSE r

\* Promise.allSettled: once the last operation has settled the rest of
\* runEventuallyConsistentOperations runs in the same turn of the event
\* loop (microtasks), before any timer can fire
allSettled(r) ==
    IF \A i \in DOMAIN r.settled : r.settled[i] \in {"fulfilled", "rejected"}
    THEN waitForConsistency(runEventuallyConsistentOperations(r))
    ELSE r

(***************************************************************************)
(* The outer try / catch / finally of the three entry points               *)
(***************************************************************************)
CatchLabel(mode) ==
    CASE mode = "coordinated" -> "coordinator"
      [] mode = "saga" -> "saga"
      [] OTHER -> "eventual"

\* return result: the promise of the entry point is fulfilled with it
returnResult(r) ==
    [r EXCEPT !.pc = "done", !.promise = "fulfilled", !.returned = TRUE, !.atReturn = r.result]

\* mutant: the catch block rethrows, the promise of the entry point rejects
catchRethrows(r, message) ==
    [r EXCEPT !.pc = "done", !.promise = "rejected"]

\* catch (error) { result.success = false; result.errors.push(...) } ...
\* return result
catchError(r, message) ==
    returnResult(
        [r EXCEPT !.result = [pushError(@, CatchLabel(r.mode), message) EXCEPT !.success = FALSE]])

\* this.activeTransactions.set(transactionId, {databases, startTime})
registerTransaction(active, transactionId, operations) ==
    [id \in DOMAIN active \cup {transactionId} |->
        IF id = transactionId
        THEN [databases |-> [i \in 1..Len(operations) |-> getDatabaseId(operations[i].database)]]
        ELSE active[id]]

\* mutant: the finally block clears the whole registry
deleteClearsRegistry(active, transactionId) ==
    [id \in {} |-> active[id]]

\* mutant: the entry point has no finally block
deleteForgotten(active, transactionId) == active

\* this.activeTransactions.delete(transactionId)
deleteTransaction(active, transactionId) ==
    [id \in DOMAIN active \ {transactionId} |-> active[id]]

getActiveTransactions == DOMAIN activeTransactions


(***************************************************************************)
(* Initial states: one call, its inputs, the state of the handles          *)
(***************************************************************************)
NoCompensations == <<>>
DefaultConfig == [isolation |-> "read_committed", timeout |-> 0]

HandleStates ==
    {s \in [Handles -> ConnectionState] :
        /\ \A h \in PostgresHandles : s[h] \in {"connected", "disconnected"}
        /\ \A h \in Handles \ PostgresHandles : s[h] = "connected"}

CoordinatedCalls ==
    {NewCall("coordinated", "tx1", operations, config, NoCompensations) :
        operations \in OperationLists, config \in TransactionConfigs}

SagaCalls ==
    {NewCall("saga", "tx1", operations, DefaultConfig, compensations) :
        operations \in OperationLists, compensations \in SeqsUpTo({"undo"}, MaxOps)}

EventualCalls ==
    {NewCall("eventual", "tx1", operations, DefaultConfig, NoCompensations) :
        operations \in OperationLists}

AllConnected == [h \in Handles |-> "connected"]

\* only the coordinated mode reads the state of a handle (leaseClient)
Init ==
    /\ \/ /\ call \in [{"tx1"} -> CoordinatedCalls]
          /\ state \in HandleStates
       \/ /\ call \in [{"tx1"} -> SagaCalls \cup EventualCalls]
          /\ state = AllConnected
    /\ activeTransactions = <<>>
    /\ clients = <<>>
    /\ pool = PoolsOf(state)
    /\ harness = NoHarness
    /\ engine = NoEngine

(***************************************************************************)
(* Actions                                                                 *)
(***************************************************************************)
\* withSpan rejects before it runs the body (the tracer throws): the catch
\* and finally blocks of the entry point run
SpanThrows ==
  \E c \in DOMAIN call :
    /\ call[c].pc = "span"
    /\ call' = [call EXCEPT ![c] =
                   catchError(Logged(@, "span", 0, FALSE), "startSpan failed")]
    /\ activeTransactions' =
           IF call[c].mode = "coordinated"
           THEN deleteTransaction(activeTransactions, c)
           ELSE activeTransactions
    /\ UNCHANGED <<clients, state, pool, harness, engine>>

\* runCoordinatedTransaction up to its first await
Register ==
  \E c \in DOMAIN call :
    /\ call[c].pc = "span"
    /\ call[c].mode = "coordinated"
    /\ activeTransactions' = registerTransaction(activeTransactions, c, call[c].operations)
    /\ call' = [call EXCEPT ![c] = runCoordinatedTransaction([@ EXCEPT !.pc = "prepare"])]
    /\ UNCHANGED <<clients, state, pool, harness, engine>>

Prepare ==
  \E c \in DOMAIN call :
    /\ call[c].pc = "prepare"
    /\ \E outcome \in BeginOutcomes(call[c].operations[call[c].index].database, call[c].config) :
          LET step == prepareCoordinatedTransactions(call[c], clients, c, outcome)
          IN  /\ call' = [call EXCEPT ![c] = runCoordinatedTransaction(step.r)]
              /\ clients' = step.clients
    /\ UNCHANGED <<activeTransactions, state, pool, harness, engine>>

Execute ==
  \E c \in DOMAIN call :
    /\ call[c].pc = "execute"
    /\ \E ok \in BOOLEAN :
          /\ call' = [call EXCEPT ![c] =
                         runCoordinatedTransaction(executePreparedTransactions(@, ok))]
          /\ engine' = unitOfWork(engine, c,
                                  call[c].preparedTransactions[call[c].index], ok)
    /\ UNCHANGED <<activeTransactions, clients, state, pool, harness>>

Commit ==
  \E c \in DOMAIN call :
    /\ call[c].pc = "commit"
    /\ \E ok \in FinalizeOutcomes(call[c].preparedTransactions[call[c].index].database) :
          LET step == commitAll(call[c], clients, ok)
          IN  /\ call' = [call EXCEPT ![c] = runCoordinatedTransaction(step.r)]
              /\ clients' = step.clients
    /\ UNCHANGED <<activeTransactions, state, pool, harness, engine>>

Rollback ==
  \E c \in DOMAIN call :
    /\ call[c].pc = "rollback"
    /\ \E ok \in FinalizeOutcomes(call[c].preparedTransactions[call[c].index].database) :
          LET step == rollbackAll(call[c], clients, ok)
          IN  /\ call' = [call EXCEPT ![c] = runCoordinatedTransaction(step.r)]
              /\ clients' = step.clients
    /\ UNCHANGED <<activeTransactions, state, pool, harness, engine>>

\* the entry point goes on after `await withSpan(...)`: finally, return
Return ==
  \E c \in DOMAIN call :
    /\ call[c].pc = "return"
    /\ call' = [call EXCEPT ![c] = returnResult(@)]
    /\ activeTransactions' =
           IF call[c].mode = "coordinated"
           THEN deleteTransaction(activeTransactions, c)
           ELSE activeTransactions
    /\ UNCHANGED <<clients, state, pool, harness, engine>>

SagaStart ==
  \E c \in DOMAIN call :
    /\ call[c].pc = "span"
    /\ call[c].mode = "saga"
    /\ call' = [call EXCEPT ![c] = runSagaTransaction([@ EXCEPT !.pc = "saga"])]
    /\ UNCHANGED <<activeTransactions, clients, state, pool, harness, engine>>

SagaOperation ==
  \E c \in DOMAIN call :
    /\ call[c].pc = "saga"
    /\ \E ok \in BOOLEAN :
          call' = [call EXCEPT ![c] = runSagaTransaction(executeSagaOperations(@, ok))]
    /\ UNCHANGED <<activeTransactions, clients, state, pool, harness, engine>>

Compensate ==
  \E c \in DOMAIN call :
    /\ call[c].pc = "compensate"
    /\ \E ok \in BOOLEAN :
          call' = [call EXCEPT ![c] = runSagaTransaction(executeCompensations(@, ok))]
    /\ UNCHANGED <<activeTransactions, clients, state, pool, harness, engine>>

\* runEventuallyConsistentTransaction: operations.map starts every
\* operation, then the call waits for the race
Fire ==
  \E c \in DOMAIN call :
    /\ call[c].pc = "span"
    /\ call[c].mode = "eventual"
    /\ call' = [call EXCEPT ![c] =
                   allSettled([@ EXCEPT !.pc = "waiting",
                                        !.operationPromise = "pending",
                                        !.settled = [i \in DOMAIN @ |-> "running"]])]
    /\ UNCHANGED <<activeTransactions, clients, state, pool, harness, engine>>

\* an operation resolves or rejects; between the timer and the return of
\* the entry point (pc = "return") only microtasks run, no operation settles
SettleOperation(c, i, ok) ==
    /\ call[c].mode = "eventual"
    /\ call[c].pc # "return"
    /\ call[c].settled[i] = "running"
    /\ call' = [call EXCEPT ![c] =
                   allSettled([@ EXCEPT !.settled[i] =
                                  IF ok THEN "fulfilled" ELSE "rejected"])]
    /\ UNCHANGED <<activeTransactions, clients, state, pool, harness, engine>>

Settle ==
  \E c \in DOMAIN call :
    \E i \in DOMAIN call[c].settled, ok \in BOOLEAN : SettleOperation(c, i, ok)

\* the timer of waitForConsistency fires
Timeout ==
  \E c \in DOMAIN call :
    /\ call[c].mode = "eventual"
    /\ call[c].pc = "waiting"
    /\ call' = [call EXCEPT ![c] = waitForConsistency(Logged(@, "timeout", 0, TRUE))]
    /\ UNCHANGED <<activeTransactions, clients, state, pool, harness, engine>>

Next ==
    \/ SpanThrows
    \/ Register
    \/ Prepare
    \/ Execute
    \/ Commit
    \/ Rollback
    \/ Return
    \/ SagaStart
    \/ SagaOperation
    \/ Compensate
    \/ Fire
    \/ Settle
    \/ Timeout

Spec == Init /\ [][Next]_vars

(***************************************************************************)
(* Two executeCoordinatedTransaction calls in flight on one coordinator    *)
(***************************************************************************)
RegistryCalls(transactionId) ==
    {NewCall("coordinated", transactionId, operations, DefaultConfig, NoCompensations) :
        operations \in SeqsUpTo([database : {"pgA", "mongoA"}], 2)}

InitRegistry ==
    /\ call \in {f \in [{"tx1", "tx2"} -> RegistryCalls("tx1") \cup RegistryCalls("tx2")] :
                    \A c \in DOMAIN f : f[c].result.transactionId = c}
    /\ state = AllConnected
    /\ activeTransactions = <<>>
    /\ clients = <<>>
    /\ pool = PoolsOf(state)
    /\ harness = NoHarness
    /\ engine = NoEngine

NextCoordinated ==
    \/ SpanThrows
    \/ Register
    \/ Prepare
    \/ Execute
    \/ Commit
    \/ Rollback
    \/ Return

SpecRegistry == InitRegistry /\ [][NextCoordinated]_vars

(***************************************************************************)
(* checkConsistency                                                        *)
(***************************************************************************)
\* what the consistency check answers: it resolves to a boolean or fails
PredicateAnswers == {"true", "false", "throws"}

\* mutant: the catch block of checkConsistency rethrows
checkConsistencyRethrows(databases, answer) ==
    IF answer \in {"true", "false"}
    THEN [promise |-> "fulfilled",
          value |-> [isConsistent |-> (answer = "true"),
                     details |-> [databases |-> Len(databases)]]]
    ELSE [promise |-> "rejected",
          value |-> [isConsistent |-> FALSE, details |-> [error |-> "check failed"]]]

\* the value checkConsistency resolves to (checkDuration left out)
checkConsistency(databases, answer) ==
    IF answer \in {"true", "false"}
    THEN [promise |-> "fulfilled",
          value |-> [isConsistent |-> (answer = "true"),
                     details |-> [databases |-> Len(databases)]]]
    ELSE [promise |-> "fulfilled",
          value |-> [isConsistent |-> FALSE, details |-> [error |-> "check failed"]]]

NewCheck(databases) ==
    [mode |-> "check", databases |-> databases, pc |-> "called", invocations |-> 0,
     answer |-> "none", promise |-> "pending",
     value |-> [isConsistent |-> FALSE, details |-> [databases |-> 0]]]

InitConsistency ==
    /\ call \in [{"check1"} -> {NewCheck(databases) : databases \in SeqsUpTo(Handles, MaxOps)}]
    /\ state = AllConnected
    /\ activeTransactions = <<>>
    /\ clients = <<>>
    /\ pool = PoolsOf(state)
    /\ harness = NoHarness
    /\ engine = NoEngine

\* const isConsistent = await consistencyCheck(databases): the call
InvokePredicate ==
  \E c \in DOMAIN call :
    /\ call[c].mode = "check"
    /\ call[c].pc = "called"
    /\ call' = [call EXCEPT ![c] = [@ EXCEPT !.pc = "checking", !.invocations = @ + 1]]
    /\ UNCHANGED <<activeTransactions, clients, state, pool, harness, engine>>

\* the predicate settles; checkConsistency returns
PredicateSettles ==
  \E c \in DOMAIN call :
    /\ call[c].mode = "check"
    /\ call[c].pc = "checking"
    /\ \E answer \in PredicateAnswers :
          LET settled == checkConsistency(call[c].databases, answer)
          IN  call' = [call EXCEPT ![c] =
                          [@ EXCEPT !.pc = "done", !.answer = answer,
                                    !.promise = settled.promise, !.value = settled.value]]
    /\ UNCHANGED <<activeTransactions, clients, state, pool, harness, engine>>

NextConsistency ==
    \/ InvokePredicate
    \/ PredicateSettles

SpecConsistency == InitConsistency /\ [][NextConsistency]_vars

(***************************************************************************)
(* Engine handles: connect() and disconnect()                              *)
(*                                                                         *)
(* call is here the sequence of the connect() / disconnect() calls made so *)
(* far, on any handle and without waiting for the earlier ones.  A call    *)
(* runs to its first await when it is made; withSpan awaits the telemetry  *)
(* module before it runs the body, so the body (new Pool, pool.connect(),  *)
(* pool.end()) starts in a later step.  MongoDBTestDB has the same shape:  *)
(* its connect and ping are one awaited attempt here.                      *)
(***************************************************************************)
EngineHandles == {"pgA", "mongoA"}

\* mutant: connect() without its state test
connectIgnoresState(current) ==
    [state |-> "connecting", noop |-> FALSE]

\* connect() up to its first await
connect(current) ==
    IF current # "disconnected"
    THEN [state |-> current, noop |-> TRUE]
    ELSE [state |-> "connecting", noop |-> FALSE]

\* mutant: the catch block of connect() leaves the state and swallows the error
connectFailureSwallowed(current, ok) ==
    IF ok
    THEN [state |-> "connected", promise |-> "fulfilled"]
    ELSE [state |-> current, promise |-> "fulfilled"]

\* connect() after its await: the end of the try block, or the catch block
connectSettled(current, ok) ==
    IF ok
    THEN [state |-> "connected", promise |-> "fulfilled"]
    ELSE [state |-> "disconnected", promise |-> "rejected"]

\* disconnect() up to its first await
disconnect(current) ==
    IF current = "disconnected"
    THEN [state |-> current, noop |-> TRUE]
    ELSE [state |-> "disconnecting", noop |-> FALSE]


\* mutant: the catch block of disconnect() puts the state back to disconnected
disconnectFailureResets(current, ok) ==
    IF ok
    THEN [state |-> "disconnected", promise |-> "fulfilled"]
    ELSE [state |-> "disconnected", promise |-> "rejected"]
\* disconnect() after its await: the end of the try block, or the catch block
disconnectSettled(current, ok) ==
    IF ok
    THEN [state |-> "disconnected", promise |-> "fulfilled"]
    ELSE [state |-> current, promise |-> "rejected"]

NewHandleCall(mode, database, entered) ==
    [mode |-> mode, database |-> database, seen |-> state[database],
     noop |-> entered.noop,
     pc |-> IF entered.noop THEN "done" ELSE "span",
     attempt |-> "none",
     promise |-> IF entered.noop THEN "fulfilled" ELSE "pending"]

InitHandle ==
    /\ call = <<>>
    /\ state = [database \in Handles |-> "disconnected"]
    /\ activeTransactions = <<>>
    /\ clients = <<>>
    /\ pool = PoolsOf(state)
    /\ harness = NoHarness
    /\ engine = NoEngine

CallConnect ==
  \E database \in EngineHandles :
    /\ Len(call) < MaxCalls
    /\ LET entered == connect(state[database])
       IN  /\ call' = Append(call, NewHandleCall("connect", database, entered))
           /\ state' = [state EXCEPT ![database] = entered.state]
    /\ UNCHANGED <<activeTransactions, clients, pool, harness, engine>>

\* withSpan starts the body of connect(): new Pool and pool.connect(); or the
\* tracer throws and the catch block runs
ConnectSpan ==
  \E c \in DOMAIN call :
    /\ call[c].mode = "connect"
    /\ call[c].pc = "span"
    /\ \/ /\ call' = [call EXCEPT ![c] = [@ EXCEPT !.pc = "attempt", !.attempt = "pending"]]
          /\ pool' = [pool EXCEPT ![call[c].database] = c]
          /\ UNCHANGED state
       \/ LET settled == connectSettled(state[call[c].database], FALSE)
          IN  /\ call' = [call EXCEPT ![c] =
                              [@ EXCEPT !.pc = "done", !.promise = settled.promise]]
              /\ state' = [state EXCEPT ![call[c].database] = settled.state]
              /\ UNCHANGED pool
    /\ UNCHANGED <<activeTransactions, clients, harness, engine>>


\* how the body of connect() can end once the connection attempt has
\* settled: MongoDBTestDB goes on with this.client.db(...), which throws
\* when a disconnect() has set this.client to null meanwhile; PostgresTestDB
\* goes on with the client it was handed and does not read this.pool
ConnectOutcomes(database) ==
    IF database \in MongoHandles /\ pool[database] = NoPool THEN {FALSE} ELSE BOOLEAN
\* the connection attempt settles
ConnectSettles ==
  \E c \in DOMAIN call :
    /\ call[c].mode = "connect"
    /\ call[c].pc = "attempt"
    /\ \E ok \in ConnectOutcomes(call[c].database) :
          LET settled == connectSettled(state[call[c].database], ok)
          IN  /\ call' = [call EXCEPT ![c] =
                              [@ EXCEPT !.pc = "done", !.promise = settled.promise,
                                        !.attempt = IF ok THEN "succeeded" ELSE "failed"]]
              /\ state' = [state EXCEPT ![call[c].database] = settled.state]
    /\ UNCHANGED <<activeTransactions, clients, pool, harness, engine>>

CallDisconnect ==
  \E database \in EngineHandles :
    /\ Len(call) < MaxCalls
    /\ LET entered == disconnect(state[database])
       IN  /\ call' = Append(call, NewHandleCall("disconnect", database, entered))
           /\ state' = [state EXCEPT ![database] = entered.state]
    /\ UNCHANGED <<activeTransactions, clients, pool, harness, engine>>

\* withSpan starts the body of disconnect(): pool.end() when there is a pool,
\* or nothing to await; or the tracer throws
DisconnectSpan ==
  \E c \in DOMAIN call :
    /\ call[c].mode = "disconnect"
    /\ call[c].pc = "span"
    /\ \/ /\ pool[call[c].database] # NoPool
          /\ call' = [call EXCEPT ![c] = [@ EXCEPT !.pc = "end", !.attempt = "pending"]]
          /\ UNCHANGED state
       \/ \E ok \in BOOLEAN :
            LET settled == disconnectSettled(state[call[c].database], ok)
            IN  /\ ok => pool[call[c].database] = NoPool
                /\ call' = [call EXCEPT ![c] =
                                [@ EXCEPT !.pc = "done", !.promise = settled.promise]]
                /\ state' = [state EXCEPT ![call[c].database] = settled.state]
    /\ UNCHANGED <<activeTransactions, clients, pool, harness, engine>>

\* pool.end() settles
DisconnectSettles ==
  \E c \in DOMAIN call :
    /\ call[c].mode = "disconnect"
    /\ call[c].pc = "end"
    /\ \E ok \in BOOLEAN :
          LET settled == disconnectSettled(state[call[c].database], ok)
          IN  /\ call' = [call EXCEPT ![c] =
                              [@ EXCEPT !.pc = "done", !.promise = settled.promise,
                                        !.attempt = IF ok THEN "succeeded" ELSE "failed"]]
              /\ state' = [state EXCEPT ![call[c].database] = settled.state]
              /\ pool' = IF ok THEN [pool EXCEPT ![call[c].database] = NoPool] ELSE pool
    /\ UNCHANGED <<activeTransactions, clients, harness, engine>>

NextHandle ==
    \/ CallConnect
    \/ ConnectSpan
    \/ ConnectSettles
    \/ CallDisconnect
    \/ DisconnectSpan
    \/ DisconnectSettles

SpecHandle == InitHandle /\ [][NextHandle]_vars

(***************************************************************************)
(* PostgresTestDB: query, leaseClient, transaction, transactionalTest      *)
(*                                                                         *)
(* call is the sequence of the calls made so far on the handle pgA, whose  *)
(* state and pool are any of those connect() and disconnect() can leave.   *)
(* A statement sent to the engine and its answer are one step.             *)
(***************************************************************************)
ClientOperations == {"query", "leaseClient", "transaction", "transactionalTest"}

DatabaseNotConnected == "Database is not connected"

\* mutant: the guard looks at the pool only
notConnectedPoolOnly(database) ==
    pool[database] = NoPool

\* if (!this.isConnected() || !this.pool)
notConnected(database) ==
    ~isConnected(database) \/ pool[database] = NoPool

NewClientCall(operation, database) ==
    [mode |-> operation, database |-> database, seen |-> state[database],
     pc |-> IF notConnected(database)
            THEN "done"
            ELSE IF operation = "query" THEN "query" ELSE "lease",
     client |-> 0,
     log |-> <<>>,
     promise |-> IF notConnected(database) THEN "rejected" ELSE "pending",
     error |-> IF notConnected(database) THEN DatabaseNotConnected ELSE ""]

\* the catch block is entered with `message`
transactionCaught(r, message) ==
    [r EXCEPT !.pc = "rollback", !.error = message]

\* the finally block: the call settles
transactionSettled(r, promise, message) ==
    [r EXCEPT !.pc = "done", !.promise = promise, !.error = message,
              !.log = Append(@, [ev |-> "release", ok |-> TRUE])]

StatementOf(pc) ==
    CASE pc = "begin" -> "BEGIN"
      [] pc = "callback" -> "callback"
      [] pc = "commit" -> "COMMIT"
      [] OTHER -> "ROLLBACK"

\* mutant: the catch block of transaction() does not roll back
transactionWithoutRollback(r, outcome) ==
    LET ok == outcome = "ok"
        logged == [r EXCEPT !.log = Append(@, [ev |-> StatementOf(r.pc), ok |-> ok])]
        failure == StatementOf(r.pc) \o " failed"
    IN  IF outcome = "spanThrows"
        THEN transactionSettled(r, "rejected", "startSpan failed")
        ELSE CASE r.pc = "begin" ->
                    IF ok THEN [logged EXCEPT !.pc = "callback"]
                    ELSE transactionSettled(logged, "rejected", failure)
               [] r.pc = "callback" ->
                    IF ok
                    THEN [logged EXCEPT
                            !.pc = IF r.mode = "transaction" THEN "commit" ELSE "tryRollback"]
                    ELSE transactionSettled(logged, "rejected", failure)
               [] r.pc \in {"commit", "tryRollback"} ->
                    IF ok THEN transactionSettled(logged, "fulfilled", "")
                    ELSE transactionSettled(logged, "rejected", failure)
               [] OTHER ->
                    transactionSettled(logged, "rejected", IF ok THEN r.error ELSE failure)

\* one statement of transaction() / transactionalTest() and what follows it
\* up to the next await
transaction(r, outcome) ==
    LET ok == outcome = "ok"
        logged == [r EXCEPT !.log = Append(@, [ev |-> StatementOf(r.pc), ok |-> ok])]
        failure == StatementOf(r.pc) \o " failed"
    IN  IF outcome = "spanThrows"
        THEN transactionCaught(r, "startSpan failed")
        ELSE CASE r.pc = "begin" ->
                    IF ok THEN [logged EXCEPT !.pc = "callback"]
                    ELSE transactionCaught(logged, failure)
               [] r.pc = "callback" ->
                    IF ok
                    THEN [logged EXCEPT
                            !.pc = IF r.mode = "transaction" THEN "commit" ELSE "tryRollback"]
                    ELSE transactionCaught(logged, failure)
               [] r.pc \in {"commit", "tryRollback"} ->
                    IF ok THEN transactionSettled(logged, "fulfilled", "")
                    ELSE transactionCaught(logged, failure)
               [] OTHER ->
                    transactionSettled(logged, "rejected", IF ok THEN r.error ELSE failure)

\* what connect() and disconnect() can leave in state and pool
ClientHandleStates == [state : ConnectionState, pool : {NoPool, NoPool + 1}]

InitClient ==
    /\ call = <<>>
    /\ \E handle \in ClientHandleStates :
          /\ state = [database \in Handles |->
                         IF database = "pgA" THEN handle.state ELSE "disconnected"]
          /\ pool = [database \in Handles |->
                         IF database = "pgA" THEN handle.pool ELSE NoPool]
    /\ activeTransactions = <<>>
    /\ clients = <<>>
    /\ harness = NoHarness
    /\ engine = NoEngine

\* the call up to its first await
CallClient ==
  \E operation \in ClientOperations :
    /\ Len(call) < MaxClientCalls
    /\ call' = Append(call, NewClientCall(operation, "pgA"))
    /\ UNCHANGED <<activeTransactions, clients, state, pool, harness, engine>>

\* pool.query settles
QuerySettles ==
  \E c \in DOMAIN call :
    /\ call[c].pc = "query"
    /\ \E ok \in BOOLEAN :
          call' = [call EXCEPT ![c] =
                      [@ EXCEPT !.pc = "done",
                                !.log = Append(@, [ev |-> "query", ok |-> ok]),
                                !.promise = IF ok THEN "fulfilled" ELSE "rejected",
                                !.error = IF ok THEN "" ELSE "query failed"]]
    /\ UNCHANGED <<activeTransactions, clients, state, pool, harness, engine>>

\* pool.connect() settles
LeaseSettles ==
  \E c \in DOMAIN call :
    /\ call[c].pc = "lease"
    /\ \/ /\ clients' = lease(clients, c, call[c].database)
          /\ call' = [call EXCEPT ![c] =
                          [@ EXCEPT !.client = Len(clients) + 1,
                                    !.pc = IF call[c].mode = "leaseClient"
                                           THEN "done" ELSE "begin",
                                    !.promise = IF call[c].mode = "leaseClient"
                                                THEN "fulfilled" ELSE "pending"]]
       \/ /\ call' = [call EXCEPT ![c] =
                          [@ EXCEPT !.pc = "done", !.promise = "rejected",
                                    !.error = "timeout exceeded when trying to connect"]]
          /\ UNCHANGED clients
    /\ UNCHANGED <<activeTransactions, state, pool, harness, engine>>

TransactionOutcomes(r) ==
    IF r.pc = "begin" THEN {"ok", "fail", "spanThrows"} ELSE {"ok", "fail"}

\* BEGIN, the callback, COMMIT or ROLLBACK settles
TransactionStep ==
  \E c \in DOMAIN call :
    /\ call[c].mode \in {"transaction", "transactionalTest"}
    /\ call[c].pc \in {"begin", "callback", "commit", "tryRollback", "rollback"}
    /\ \E outcome \in TransactionOutcomes(call[c]) :
          LET next == transaction(call[c], outcome)
          IN  /\ call' = [call EXCEPT ![c] = next]
              /\ clients' = IF next.pc = "done"
                            THEN release(clients, call[c].client)
                            ELSE clients
    /\ UNCHANGED <<activeTransactions, state, pool, harness, engine>>

NextClient ==
    \/ CallClient
    \/ QuerySettles
    \/ LeaseSettles
    \/ TransactionStep

SpecClient == InitClient /\ [][NextClient]_vars

(***************************************************************************)
(* createPostgresTransactionalHarness: the transactional sandbox           *)
(*                                                                         *)
(* harness.client is the `client` variable of the closure; engine.table is *)
(* the committed content of a table of the database behind the handle and  *)
(* engine.truncated the leased clients holding an uncommitted TRUNCATE.    *)
(* The test runner awaits each hook and each test: a call is made when the *)
(* earlier ones have settled.                                              *)
(***************************************************************************)
Rows == {"row1", "row2"}

TruncateOptions == {<<>>, <<"users">>}

\* a getDb() evaluated before beforeAll has assigned database_
Undefined == "undefined"

createPostgresTransactionalHarness(database, tablesToTruncate) ==
    [database |-> database, tablesToTruncate |-> tablesToTruncate,
     client |-> 0, log |-> <<>>]

HarnessLogged(h, ev, client, ok) ==
    [h EXCEPT !.log = Append(@, [ev |-> ev, client |-> client, ok |-> ok])]

Settled(c) == call[c].pc = "done"

NewHookCall(mode, pc, promise, error) ==
    [mode |-> mode, pc |-> pc, promise |-> promise, error |-> error,
     client |-> harness.client, noop |-> FALSE, table |-> engine.table]

\* beforeEach up to its first await: database.leaseClient()
beforeEach(h) ==
    IF h.database = Undefined
    THEN NewHookCall("beforeEach", "done", "rejected",
                     "Cannot read properties of undefined")
    ELSE IF notConnected(h.database)
         THEN NewHookCall("beforeEach", "done", "rejected", DatabaseNotConnected)
         ELSE NewHookCall("beforeEach", "lease", "pending", "")

\* mutant: afterEach without its test of `client`
afterEachAlwaysRuns(h) ==
    IF h.tablesToTruncate # <<>>
    THEN NewHookCall("afterEach", "truncate", "pending", "")
    ELSE NewHookCall("afterEach", "rollback", "pending", "")

\* afterEach up to its first await
afterEach(h) ==
    IF h.client = 0
    THEN [NewHookCall("afterEach", "done", "fulfilled", "") EXCEPT !.noop = TRUE]
    ELSE IF h.tablesToTruncate # <<>>
         THEN NewHookCall("afterEach", "truncate", "pending", "")
         ELSE NewHookCall("afterEach", "rollback", "pending", "")

\* the finally block of afterEach
afterEachFinally(h, activeClient) ==
    [HarnessLogged(h, "release", activeClient, TRUE) EXCEPT !.client = 0]

\* what a statement does to the engine: outside a transaction it is
\* committed at once, inside one it waits for COMMIT or ROLLBACK
Truncated(e, cl, client) ==
    IF cl[client].tx = "active"
    THEN [e EXCEPT !.truncated = @ \cup {client}]
    ELSE [e EXCEPT !.table = {}]

RolledBack(e, client) == [e EXCEPT !.truncated = @ \ {client}]

InitSandbox ==
    /\ call = <<>>
    /\ \E connected \in BOOLEAN :
          state = [database \in Handles |->
                      IF database = "pgA" /\ connected THEN "connected" ELSE "disconnected"]
    /\ pool = PoolsOf(state)
    /\ activeTransactions = <<>>
    /\ clients = <<>>
    /\ \E tablesToTruncate \in TruncateOptions :
          harness = createPostgresTransactionalHarness("pgA", tablesToTruncate)
    /\ \E table \in SUBSET Rows : engine = [table |-> table, truncated |-> {}]

MayCall ==
    /\ Len(call) < MaxCalls
    /\ \A c \in DOMAIN call : Settled(c)

CallBeforeEach ==
    /\ MayCall
    /\ call' = Append(call, beforeEach(harness))
    /\ UNCHANGED <<activeTransactions, clients, state, pool, harness, engine>>

\* client = await database.leaseClient()
BeforeEachLease ==
  \E c \in DOMAIN call :
    /\ call[c].mode = "beforeEach"
    /\ call[c].pc = "lease"
    /\ \/ /\ clients' = lease(clients, "harness", harness.database)
          /\ harness' = [harness EXCEPT !.client = Len(clients) + 1]
          /\ call' = [call EXCEPT ![c] = [@ EXCEPT !.pc = "begin", !.client = Len(clients) + 1]]
       \/ /\ call' = [call EXCEPT ![c] =
                          [@ EXCEPT !.pc = "done", !.promise = "rejected",
                                    !.error = "timeout exceeded when trying to connect"]]
          /\ UNCHANGED <<clients, harness>>
    /\ UNCHANGED <<activeTransactions, state, pool, engine>>

\* await withSpan('postgres.per-test.begin', () => activeClient.query('BEGIN'))
BeforeEachBegin ==
  \E c \in DOMAIN call :
    /\ call[c].mode = "beforeEach"
    /\ call[c].pc = "begin"
    /\ \E outcome \in {"ok", "fail", "spanThrows"} :
          /\ call' = [call EXCEPT ![c] =
                          [@ EXCEPT !.pc = "done",
                                    !.promise = IF outcome = "ok" THEN "fulfilled" ELSE "rejected",
                                    !.error = CASE outcome = "ok" -> ""
                                                [] outcome = "fail" -> "BEGIN failed"
                                                [] OTHER -> "startSpan failed"]]
          /\ harness' = IF outcome = "spanThrows" THEN harness
                        ELSE HarnessLogged(harness, "BEGIN", call[c].client, outcome = "ok")
          /\ clients' = IF outcome = "ok" THEN query(clients, call[c].client, "active")
                        ELSE clients
    /\ UNCHANGED <<activeTransactions, state, pool, engine>>

CallAfterEach ==
    /\ MayCall
    /\ call' = Append(call, afterEach(harness))
    /\ UNCHANGED <<activeTransactions, clients, state, pool, harness, engine>>

\* await activeClient.query(`TRUNCATE TABLE ... CASCADE`)
AfterEachTruncate ==
  \E c \in DOMAIN call :
    /\ call[c].mode = "afterEach"
    /\ call[c].pc = "truncate"
    /\ \/ /\ call' = [call EXCEPT ![c] = [@ EXCEPT !.pc = "rollback"]]
          /\ harness' = HarnessLogged(harness, "TRUNCATE", call[c].client, TRUE)
          /\ engine' = Truncated(engine, clients, call[c].client)
          /\ UNCHANGED clients
       \/ /\ call' = [call EXCEPT ![c] =
                          [@ EXCEPT !.pc = "done", !.promise = "rejected",
                                    !.error = "TRUNCATE failed", !.table = engine.table]]
          /\ harness' = afterEachFinally(
                            HarnessLogged(harness, "TRUNCATE", call[c].client, FALSE),
                            call[c].client)
          /\ clients' = release(clients, call[c].client)
          /\ UNCHANGED engine
    /\ UNCHANGED <<activeTransactions, state, pool>>

\* await withSpan('postgres.per-test.rollback', () => activeClient.query('ROLLBACK'))
\* and the finally block
AfterEachRollback ==
  \E c \in DOMAIN call :
    /\ call[c].mode = "afterEach"
    /\ call[c].pc = "rollback"
    /\ \E outcome \in {"ok", "fail", "spanThrows"} :
          /\ call' = [call EXCEPT ![c] =
                          [@ EXCEPT !.pc = "done",
                                    !.promise = IF outcome = "ok" THEN "fulfilled" ELSE "rejected",
                                    !.error = CASE outcome = "ok" -> ""
                                                [] outcome = "fail" -> "ROLLBACK failed"
                                                [] OTHER -> "startSpan failed",
                                    !.table = engine.table]]
          /\ harness' = afterEachFinally(
                            IF outcome = "spanThrows" THEN harness
                            ELSE HarnessLogged(harness, "ROLLBACK", call[c].client,
                                               outcome = "ok"),
                            call[c].client)
          /\ engine' = IF outcome = "ok" THEN RolledBack(engine, call[c].client) ELSE engine
          /\ clients' = release(IF outcome = "ok"
                                THEN query(clients, call[c].client, "none")
                                ELSE clients,
                                call[c].client)
    /\ UNCHANGED <<activeTransactions, state, pool>>

\* a test changes a row with database.query(...): the statement runs on a
\* connection the pool picks, never the leased one, and is committed at once
TestQuery ==
    /\ MayCall
    /\ harness.database # Undefined
    /\ ~notConnected(harness.database)
    /\ \E row \in Rows :
          /\ engine' = [engine EXCEPT !.table = IF row \in @ THEN @ \ {row} ELSE @ \cup {row}]
          /\ call' = Append(call, [NewHookCall("test", "done", "fulfilled", "")
                                     EXCEPT !.table = engine'.table])
    /\ UNCHANGED <<activeTransactions, clients, state, pool, harness>>

NextSandbox ==
    \/ CallBeforeEach
    \/ BeforeEachLease
    \/ BeforeEachBegin
    \/ CallAfterEach
    \/ AfterEachTruncate
    \/ AfterEachRollback
    \/ TestQuery

SpecSandbox == InitSandbox /\ [][NextSandbox]_vars

(***************************************************************************)
(* installPostgresTestHarness over withWorkerPostgresDatabase              *)
(*                                                                         *)
(* harness holds, besides the transactional harness made at install time,  *)
(* the closure of withWorkerPostgresDatabase: database_, the position pc   *)
(* of the test runner in the hooks, and the events seen by the engine.     *)
(* pgA is the scoped handle; each hook makes an administrative handle of   *)
(* its own.  connect() and disconnect() are one step each here.            *)
(***************************************************************************)
WorkerHandles == {"pgA", "adminBeforeAll", "adminAfterAll"}

MaxSchemas == 2          \* entries of options.schemas

WorkerDatabase == "w1_kitium"

WorkerLogged(h, ev, handle, ok) ==
    [h EXCEPT !.events = Append(@, [ev |-> ev, handle |-> handle, ok |-> ok,
                                    scoped |-> state["pgA"]])]

\* installPostgresTestHarness: getDb() is evaluated when the harness is made,
\* before any hook has run
installPostgresTestHarness(schemas, truncateTables, useTransactionalIsolation) ==
    LET database_ == Undefined
        getDb == database_
        made == createPostgresTransactionalHarness(getDb, truncateTables)
    IN  [database |-> made.database, tablesToTruncate |-> made.tablesToTruncate,
         client |-> made.client, log |-> made.log,
         database_ |-> database_, schemas |-> schemas,
         useTransactionalIsolation |-> useTransactionalIsolation,
         pc |-> "beforeAll", thrown |-> FALSE, events |-> <<>>,
         beforeAll |-> "pending", afterAll |-> "pending"]

InitWorker ==
    /\ call = <<>>
    /\ state = [database \in WorkerHandles |-> "disconnected"]
    /\ pool = [database \in WorkerHandles |-> NoPool]
    /\ activeTransactions = <<>>
    /\ clients = <<>>
    /\ \E schemas \in 0..MaxSchemas, truncateTables \in TruncateOptions,
          useTransactionalIsolation \in BOOLEAN :
          harness = installPostgresTestHarness(schemas, truncateTables,
                                               useTransactionalIsolation)
    /\ engine = [table |-> {}, truncated |-> {}, databases |-> {}]

\* `await handle.connect()` as one step
Connected(handle, ok) ==
    /\ state' = [state EXCEPT ![handle] =
                     IF connect(@).noop THEN @ ELSE connectSettled("connecting", ok).state]
    /\ pool' = [pool EXCEPT ![handle] = IF connect(state[handle]).noop THEN @ ELSE NoPool + 1]

\* `await handle.disconnect()` as one step
Disconnected(handle, ok) ==
    /\ state' = [state EXCEPT ![handle] =
                     IF disconnect(@).noop THEN @
                     ELSE disconnectSettled("disconnecting", ok).state]
    /\ pool' = [pool EXCEPT ![handle] =
                    IF disconnect(state[handle]).noop \/ ~ok THEN @ ELSE NoPool]

\* a beforeAll hook rejects: the runner skips the tests and runs afterAll
beforeAllRejected(h) == [h EXCEPT !.pc = "afterAll", !.beforeAll = "rejected"]

\* beforeAll: await adminDatabase.connect()
WorkerAdminConnect ==
    /\ harness.pc = "beforeAll"
    /\ \E ok \in BOOLEAN :
          /\ Connected("adminBeforeAll", ok)
          /\ harness' = IF ok
                        THEN [WorkerLogged(harness, "connect", "adminBeforeAll", TRUE)
                                EXCEPT !.pc = "create"]
                        ELSE beforeAllRejected(
                                 WorkerLogged(harness, "connect", "adminBeforeAll", FALSE))
    /\ UNCHANGED <<call, activeTransactions, clients, engine>>

\* mutant: the administrative handle is disconnected only when the create
\* succeeded
afterCreateWithoutFinally(h, ok) ==
    IF ok
    THEN [h EXCEPT !.pc = "adminDisconnect", !.thrown = FALSE]
    ELSE beforeAllRejected(h)

\* try { await adminDatabase.createDatabase(database) } finally { ... }
afterCreate(h, ok) ==
    [h EXCEPT !.pc = "adminDisconnect", !.thrown = ~ok]

WorkerCreate ==
    /\ harness.pc = "create"
    /\ \E ok \in BOOLEAN :
          /\ harness' = afterCreate(
                            WorkerLogged(harness, "create", "adminBeforeAll", ok), ok)
          /\ engine' = IF ok THEN [engine EXCEPT !.databases = @ \cup {WorkerDatabase}]
                       ELSE engine
    /\ UNCHANGED <<call, activeTransactions, clients, state, pool>>

\* finally { await adminDatabase.disconnect() }, then database_ is assigned
WorkerAdminDisconnect ==
    /\ harness.pc = "adminDisconnect"
    /\ \E ok \in BOOLEAN :
          /\ Disconnected("adminBeforeAll", ok)
          /\ harness' =
                LET logged == WorkerLogged(harness, "disconnect", "adminBeforeAll", ok)
                IN  IF ok /\ ~harness.thrown
                    THEN [logged EXCEPT !.pc = "scopedConnect", !.database_ = "pgA"]
                    ELSE beforeAllRejected(logged)
    /\ UNCHANGED <<call, activeTransactions, clients, engine>>

\* await withSpan('postgres.worker.connect', () => database_.connect())
WorkerScopedConnect ==
    /\ harness.pc = "scopedConnect"
    /\ \E ok \in BOOLEAN :
          /\ Connected("pgA", ok)
          /\ harness' = IF ok
                        THEN [WorkerLogged(harness, "connect", "pgA", TRUE)
                                EXCEPT !.pc = IF harness.schemas > 0 THEN "schemas"
                                              ELSE "handler"]
                        ELSE beforeAllRejected(WorkerLogged(harness, "connect", "pgA", FALSE))
    /\ UNCHANGED <<call, activeTransactions, clients, engine>>

\* await database_.query(`CREATE TABLE IF NOT EXISTS ...`), once per schema
WorkerSchema ==
    /\ harness.pc = "schemas"
    /\ \E ok \in BOOLEAN :
          harness' =
              LET logged == WorkerLogged(harness, "schema", "pgA",
                                         ok /\ ~notConnected("pgA"))
              IN  IF ok /\ ~notConnected("pgA")
                  THEN [logged EXCEPT !.schemas = @ - 1,
                                      !.pc = IF harness.schemas > 1 THEN "schemas"
                                             ELSE "handler"]
                  ELSE beforeAllRejected(logged)
    /\ UNCHANGED <<call, activeTransactions, clients, state, pool, engine>>

\* the second beforeAll hook: await handler(getDb(), config)
WorkerHandler ==
    /\ harness.pc = "handler"
    /\ \E ok \in BOOLEAN :
          harness' = IF ok THEN [harness EXCEPT !.pc = "tests", !.beforeAll = "fulfilled"]
                     ELSE beforeAllRejected(harness)
    /\ UNCHANGED <<call, activeTransactions, clients, state, pool, engine>>

\* lifecycle.beforeEach(harness.beforeEach)
WorkerBeforeEach ==
    /\ harness.pc = "tests"
    /\ harness.useTransactionalIsolation
    /\ CallBeforeEach

\* lifecycle.afterEach(harness.afterEach), or the afterEach that truncates
WorkerAfterEach ==
    /\ harness.pc = "tests"
    /\ \/ /\ harness.useTransactionalIsolation
          /\ CallAfterEach
       \/ /\ ~harness.useTransactionalIsolation
          /\ harness.tablesToTruncate # <<>>
          /\ MayCall
          /\ \E ok \in BOOLEAN :
                /\ call' = Append(call,
                                  [NewHookCall("truncateTables", "done",
                                               IF ok THEN "fulfilled" ELSE "rejected",
                                               IF ok THEN "" ELSE "TRUNCATE failed")
                                     EXCEPT !.table = IF ok THEN {} ELSE engine.table])
                /\ engine' = IF ok THEN [engine EXCEPT !.table = {}] ELSE engine
          /\ UNCHANGED <<activeTransactions, clients, state, pool, harness>>

\* a test changes a row through the handle the handler was given
WorkerTestQuery ==
    /\ harness.pc = "tests"
    /\ MayCall
    /\ \E row \in Rows :
          /\ engine' = [engine EXCEPT !.table = IF row \in @ THEN @ \ {row} ELSE @ \cup {row}]
          /\ call' = Append(call, [NewHookCall("test", "done", "fulfilled", "")
                                     EXCEPT !.table = engine'.table])
    /\ UNCHANGED <<activeTransactions, clients, state, pool, harness>>

afterAllSettled(h, promise) == [h EXCEPT !.pc = "finished", !.afterAll = promise]

\* afterAll: if (!database_) return; await database_.disconnect()
WorkerScopedDisconnect ==
    /\ harness.pc \in {"tests", "afterAll"}
    /\ \A c \in DOMAIN call : Settled(c)
    /\ IF harness.database_ = Undefined
       THEN /\ harness' = afterAllSettled(harness, "fulfilled")
            /\ UNCHANGED <<state, pool>>
       ELSE \E ok \in BOOLEAN :
              /\ Disconnected("pgA", ok)
              /\ harness' =
                    IF ok \/ disconnect(state["pgA"]).noop
                    THEN [WorkerLogged(harness, "disconnect", "pgA", TRUE)
                            EXCEPT !.pc = "dropConnect"]
                    ELSE afterAllSettled(WorkerLogged(harness, "disconnect", "pgA", FALSE),
                                         "rejected")
    /\ UNCHANGED <<call, activeTransactions, clients, engine>>

\* afterAll: await adminDatabase.connect()
WorkerDropConnect ==
    /\ harness.pc = "dropConnect"
    /\ \E ok \in BOOLEAN :
          /\ Connected("adminAfterAll", ok)
          /\ harness' = IF ok
                        THEN [WorkerLogged(harness, "connect", "adminAfterAll", TRUE)
                                EXCEPT !.pc = "drop"]
                        ELSE afterAllSettled(
                                 WorkerLogged(harness, "connect", "adminAfterAll", FALSE),
                                 "rejected")
    /\ UNCHANGED <<call, activeTransactions, clients, engine>>

\* try { await adminDatabase.dropDatabase(database) } finally { ... }
WorkerDrop ==
    /\ harness.pc = "drop"
    /\ \E ok \in BOOLEAN :
          /\ harness' = [WorkerLogged(harness, "drop", "adminAfterAll", ok)
                           EXCEPT !.pc = "dropDisconnect", !.thrown = ~ok]
          /\ engine' = IF ok THEN [engine EXCEPT !.databases = @ \ {WorkerDatabase}]
                       ELSE engine
    /\ UNCHANGED <<call, activeTransactions, clients, state, pool>>

\* finally { await adminDatabase.disconnect() }
WorkerDropDisconnect ==
    /\ harness.pc = "dropDisconnect"
    /\ \E ok \in BOOLEAN :
          /\ Disconnected("adminAfterAll", ok)
          /\ harness' = afterAllSettled(
                            WorkerLogged(harness, "disconnect", "adminAfterAll", ok),
                            IF ok /\ ~harness.thrown THEN "fulfilled" ELSE "rejected")
    /\ UNCHANGED <<call, activeTransactions, clients, engine>>

NextWorker ==
    \/ WorkerAdminConnect
    \/ WorkerCreate
    \/ WorkerAdminDisconnect
    \/ WorkerScopedConnect
    \/ WorkerSchema
    \/ WorkerHandler
    \/ WorkerBeforeEach
    \/ WorkerAfterEach
    \/ WorkerTestQuery
    \/ WorkerScopedDisconnect
    \/ WorkerDropConnect
    \/ WorkerDrop
    \/ WorkerDropDisconnect

SpecWorker == InitWorker /\ [][NextWorker]_vars

(***************************************************************************)
(* withPerTestMongoDatabase: a fresh database per test                     *)
(*                                                                         *)
(* call[t] is the position of test t in beforeEach, its body and           *)
(* afterEach; tests of one process may overlap, so the steps of different  *)
(* tests interleave.  harness.database_ is the one variable of the         *)
(* closure.  The random suffix of a database name is taken as unique: the  *)
(* name made for test t is PerTestDatabase(t), which is also the name of   *)
(* the handle connected to it.                                             *)
(***************************************************************************)
PerTests == {"A", "B"}

PerTestDatabase(t) == "kitium_test_" \o t

PerTestDatabases == {PerTestDatabase(t) : t \in PerTests}

withPerTestMongoDatabase == [database_ |-> Undefined]

InitPerTest ==
    /\ call = [t \in PerTests |->
                  [mode |-> "perTest", pc |-> "beforeEach", provisioned |-> Undefined,
                   obtained |-> Undefined, observed |-> {}]]
    /\ state = [database \in PerTestDatabases |-> "disconnected"]
    /\ pool = [database \in PerTestDatabases |-> NoPool]
    /\ activeTransactions = <<>>
    /\ clients = <<>>
    /\ harness = withPerTestMongoDatabase
    /\ engine = [databases |-> [database \in PerTestDatabases |-> {}]]

\* beforeEach up to its await: database_ = createMongoDBTestDB(...); connect()
PerTestBeforeEach ==
  \E t \in DOMAIN call :
    /\ call[t].mode = "perTest"
    /\ call[t].pc = "beforeEach"
    /\ harness' = [harness EXCEPT !.database_ = PerTestDatabase(t)]
    /\ state' = [state EXCEPT ![PerTestDatabase(t)] = connect(@).state]
    /\ call' = [call EXCEPT ![t] =
                    [@ EXCEPT !.pc = "connect", !.provisioned = PerTestDatabase(t)]]
    /\ UNCHANGED <<activeTransactions, clients, pool, engine>>

\* the connect() of beforeEach settles; after a failed beforeEach the runner
\* skips the body and runs afterEach
PerTestConnect ==
  \E t \in DOMAIN call :
    /\ call[t].mode = "perTest"
    /\ call[t].pc = "connect"
    /\ \E ok \in BOOLEAN :
          /\ state' = [state EXCEPT ![call[t].provisioned] = connectSettled(@, ok).state]
          /\ pool' = [pool EXCEPT ![call[t].provisioned] = NoPool + 1]
          /\ call' = [call EXCEPT ![t] = [@ EXCEPT !.pc = IF ok THEN "getDb" ELSE "drop"]]
    /\ UNCHANGED <<activeTransactions, clients, harness, engine>>

\* the body of the test: const db = getDb()
PerTestGetDb ==
  \E t \in DOMAIN call :
    /\ call[t].mode = "perTest"
    /\ call[t].pc = "getDb"
    /\ call' = [call EXCEPT ![t] = [@ EXCEPT !.pc = "seed", !.obtained = harness.database_]]
    /\ UNCHANGED <<activeTransactions, clients, state, pool, harness, engine>>

\* the body of the test seeds a document of its own through db
PerTestSeed ==
  \E t \in DOMAIN call :
    /\ call[t].mode = "perTest"
    /\ call[t].pc = "seed"
    /\ IF notConnected(call[t].obtained)
       THEN /\ call' = [call EXCEPT ![t] = [@ EXCEPT !.pc = "drop"]]
            /\ UNCHANGED engine
       ELSE /\ call' = [call EXCEPT ![t] = [@ EXCEPT !.pc = "read"]]
            /\ engine' = [engine EXCEPT !.databases[call[t].obtained] = @ \cup {t}]
    /\ UNCHANGED <<activeTransactions, clients, state, pool, harness>>

\* the body of the test reads the collection through db
PerTestRead ==
  \E t \in DOMAIN call :
    /\ call[t].mode = "perTest"
    /\ call[t].pc = "read"
    /\ call' = [call EXCEPT ![t] =
                    [@ EXCEPT !.pc = "drop",
                              !.observed = IF notConnected(call[t].obtained) THEN {}
                                           ELSE engine.databases[call[t].obtained]]]
    /\ UNCHANGED <<activeTransactions, clients, state, pool, harness, engine>>

\* afterEach: await database_.dropDatabase()
PerTestDrop ==
  \E t \in DOMAIN call :
    /\ call[t].mode = "perTest"
    /\ call[t].pc = "drop"
    /\ \E ok \in BOOLEAN :
          IF ok /\ ~notConnected(harness.database_)
          THEN /\ call' = [call EXCEPT ![t] = [@ EXCEPT !.pc = "disconnect"]]
               /\ engine' = [engine EXCEPT !.databases[harness.database_] = {}]
          ELSE /\ call' = [call EXCEPT ![t] = [@ EXCEPT !.pc = "done"]]
               /\ UNCHANGED engine
    /\ UNCHANGED <<activeTransactions, clients, state, pool, harness>>

\* afterEach: await database_.disconnect()
PerTestDisconnect ==
  \E t \in DOMAIN call :
    /\ call[t].mode = "perTest"
    /\ call[t].pc = "disconnect"
    /\ \E ok \in BOOLEAN : Disconnected(harness.database_, ok)
    /\ call' = [call EXCEPT ![t] = [@ EXCEPT !.pc = "done"]]
    /\ UNCHANGED <<activeTransactions, clients, harness, engine>>

NextPerTest ==
    \/ PerTestBeforeEach
    \/ PerTestConnect
    \/ PerTestGetDb
    \/ PerTestSeed
    \/ PerTestRead
    \/ PerTestDrop
    \/ PerTestDisconnect

SpecPerTest == InitPerTest /\ [][NextPerTest]_vars

(***************************************************************************)
(* withTemporaryPostgresDatabase                                           *)
(*                                                                         *)
(* harness is the frame of one call: pc, the exception on its way out of   *)
(* a try block (thrown), and the events seen by the engine.  pgA is the    *)
(* dedicated handle testDatabase; createDatabase and dropDatabase make an  *)
(* administrative handle each.                                             *)
(***************************************************************************)
TemporaryHandles == {"pgA", "adminCreate", "adminDrop"}

withTemporaryPostgresDatabase(schemas) ==
    [pc |-> "createConnect", thrown |-> FALSE, schemas |-> schemas,
     events |-> <<>>, promise |-> "pending"]

temporaryRejected(h) == [h EXCEPT !.pc = "done", !.promise = "rejected"]

\* an await inside the try block rejects: on to the finally block
temporaryFinally(h, thrown) == [h EXCEPT !.pc = "disconnect", !.thrown = thrown]

InitTemporary ==
    /\ call = <<>>
    /\ state = [database \in TemporaryHandles |-> "disconnected"]
    /\ pool = [database \in TemporaryHandles |-> NoPool]
    /\ activeTransactions = <<>>
    /\ clients = <<>>
    /\ \E schemas \in 0..MaxSchemas : harness = withTemporaryPostgresDatabase(schemas)
    /\ engine = [databases |-> {}]

\* createDatabase: await adminDatabase.connect()
TemporaryCreateConnect ==
    /\ harness.pc = "createConnect"
    /\ \E ok \in BOOLEAN :
          /\ Connected("adminCreate", ok)
          /\ harness' = IF ok
                        THEN [WorkerLogged(harness, "connect", "adminCreate", TRUE)
                                EXCEPT !.pc = "create"]
                        ELSE temporaryRejected(
                                 WorkerLogged(harness, "connect", "adminCreate", FALSE))
    /\ UNCHANGED <<call, activeTransactions, clients, engine>>

\* createDatabase: try { await adminDatabase.createDatabase(name) }
TemporaryCreate ==
    /\ harness.pc = "create"
    /\ \E ok \in BOOLEAN :
          /\ harness' = [WorkerLogged(harness, "create", "adminCreate", ok)
                           EXCEPT !.pc = "createDisconnect", !.thrown = ~ok]
          /\ engine' = IF ok THEN [engine EXCEPT !.databases = @ \cup {WorkerDatabase}]
                       ELSE engine
    /\ UNCHANGED <<call, activeTransactions, clients, state, pool>>

\* createDatabase: finally { await adminDatabase.disconnect() }
TemporaryCreateDisconnect ==
    /\ harness.pc = "createDisconnect"
    /\ \E ok \in BOOLEAN :
          /\ Disconnected("adminCreate", ok)
          /\ harness' =
                LET logged == WorkerLogged(harness, "disconnect", "adminCreate", ok)
                IN  IF ok /\ ~harness.thrown
                    THEN [logged EXCEPT !.pc = "connect"]
                    ELSE temporaryRejected(logged)
    /\ UNCHANGED <<call, activeTransactions, clients, engine>>

\* try { await testDatabase.connect()
TemporaryConnect ==
    /\ harness.pc = "connect"
    /\ \E ok \in BOOLEAN :
          /\ Connected("pgA", ok)
          /\ harness' = IF ok
                        THEN [WorkerLogged(harness, "connect", "pgA", TRUE)
                                EXCEPT !.pc = IF harness.schemas > 0 THEN "schemas"
                                              ELSE "handler"]
                        ELSE temporaryFinally(
                                 WorkerLogged(harness, "connect", "pgA", FALSE), TRUE)
    /\ UNCHANGED <<call, activeTransactions, clients, engine>>

\* ensureSchemas: await database.query(`CREATE TABLE IF NOT EXISTS ...`)
TemporarySchema ==
    /\ harness.pc = "schemas"
    /\ \E ok \in BOOLEAN :
          harness' =
              LET logged == WorkerLogged(harness, "schema", "pgA",
                                         ok /\ ~notConnected("pgA"))
              IN  IF ok /\ ~notConnected("pgA")
                  THEN [logged EXCEPT !.schemas = @ - 1,
                                      !.pc = IF harness.schemas > 1 THEN "schemas"
                                             ELSE "handler"]
                  ELSE temporaryFinally(logged, TRUE)
    /\ UNCHANGED <<call, activeTransactions, clients, state, pool, engine>>

\* await handler(testDatabase, testConfig)
TemporaryHandler ==
    /\ harness.pc = "handler"
    /\ \E ok \in BOOLEAN :
          harness' = temporaryFinally(WorkerLogged(harness, "handler", "pgA", ok), ~ok)
    /\ UNCHANGED <<call, activeTransactions, clients, state, pool, engine>>

\* finally { await testDatabase.disconnect()
TemporaryDisconnect ==
    /\ harness.pc = "disconnect"
    /\ \E ok \in BOOLEAN :
          /\ Disconnected("pgA", ok)
          /\ harness' =
                IF ok \/ disconnect(state["pgA"]).noop
                THEN [WorkerLogged(harness, "disconnect", "pgA", TRUE)
                        EXCEPT !.pc = "dropConnect"]
                ELSE temporaryRejected(WorkerLogged(harness, "disconnect", "pgA", FALSE))
    /\ UNCHANGED <<call, activeTransactions, clients, engine>>

\* dropDatabase: await adminDatabase.connect()
TemporaryDropConnect ==
    /\ harness.pc = "dropConnect"
    /\ \E ok \in BOOLEAN :
          /\ Connected("adminDrop", ok)
          /\ harness' = IF ok
                        THEN [WorkerLogged(harness, "connect", "adminDrop", TRUE)
                                EXCEPT !.pc = "drop"]
                        ELSE temporaryRejected(
                                 WorkerLogged(harness, "connect", "adminDrop", FALSE))
    /\ UNCHANGED <<call, activeTransactions, clients, engine>>

\* dropDatabase: try { await adminDatabase.dropDatabase(name) }
TemporaryDrop ==
    /\ harness.pc = "drop"
    /\ \E ok \in BOOLEAN :
          /\ harness' = [WorkerLogged(harness, "drop", "adminDrop", ok)
                           EXCEPT !.pc = "dropDisconnect",
                                  !.thrown = harness.thrown \/ ~ok]
          /\ engine' = IF ok THEN [engine EXCEPT !.databases = @ \ {WorkerDatabase}]
                       ELSE engine
    /\ UNCHANGED <<call, activeTransactions, clients, state, pool>>

\* dropDatabase: finally { await adminDatabase.disconnect() }; the call settles
TemporaryDropDisconnect ==
    /\ harness.pc = "dropDisconnect"
    /\ \E ok \in BOOLEAN :
          /\ Disconnected("adminDrop", ok)
          /\ harness' =
                LET logged == WorkerLogged(harness, "disconnect", "adminDrop", ok)
                IN  IF ok /\ ~harness.thrown
                    THEN [logged EXCEPT !.pc = "done", !.promise = "fulfilled"]
                    ELSE temporaryRejected(logged)
    /\ UNCHANGED <<call, activeTransactions, clients, engine>>

NextTemporary ==
    \/ TemporaryCreateConnect
    \/ TemporaryCreate
    \/ TemporaryCreateDisconnect
    \/ TemporaryConnect
    \/ TemporarySchema
    \/ TemporaryHandler
    \/ TemporaryDisconnect
    \/ TemporaryDropConnect
    \/ TemporaryDrop
    \/ TemporaryDropDisconnect

SpecTemporary == InitTemporary /\ [][NextTemporary]_vars


(***************************************************************************)
(* Vocabulary of the properties                                            *)
(***************************************************************************)
Range(seq) == {seq[i] : i \in DOMAIN seq}

Events(c, ev) == SelectSeq(call[c].log, LAMBDA e : e.ev = ev)
Failed(c, ev) == SelectSeq(call[c].log, LAMBDA e : e.ev = ev /\ ~e.ok)
Indices(events) == [k \in DOMAIN events |-> events[k].i]

\* the call returned from its body, not from the catch block of a failed span
Returned(c, mode) ==
    /\ call[c].mode = mode
    /\ call[c].returned
    /\ Events(c, "span") = <<>>

OperationIds(c) ==
    [i \in DOMAIN call[c].operations |-> getDatabaseId(call[c].operations[i].database)]
PreparedIds(c) ==
    [i \in DOMAIN call[c].preparedTransactions |->
        getDatabaseId(call[c].preparedTransactions[i].database)]

AllPrepared(c) == Len(call[c].preparedTransactions) = Len(call[c].operations)

\* C1: in every returned CoordinationResult no participant identifier is in
\* both the committed list and the rolledBack list
C1_CommittedRolledBackDisjoint ==
    \A c \in DOMAIN call :
        call[c].returned =>
            Range(call[c].atReturn.committed) \cap Range(call[c].atReturn.rolledBack) = {}

\* C2: in every returned CoordinationResult committed is non-empty only when
\* success is true
C2_CommittedOnlyOnSuccess ==
    \A c \in DOMAIN call :
        (call[c].returned /\ ~call[c].atReturn.success) => call[c].atReturn.committed = <<>>

\* C5: when executeCoordinatedTransaction has returned, every connection it
\* leased has been released exactly once
C5_EveryLeaseReleasedOnce ==
    \A c \in DOMAIN call :
        (call[c].mode = "coordinated" /\ call[c].returned) =>
            \A k \in DOMAIN clients : clients[k].owner = c => clients[k].released = 1


\* every operation was prepared and its unit of work resolved
EveryUnitOfWorkSucceeded(c) ==
    /\ Returned(c, "coordinated")
    /\ AllPrepared(c)
    /\ Len(Events(c, "unit")) = Len(call[c].operations)
    /\ Failed(c, "unit") = <<>>

\* every engine call of the transaction (prepare, unit of work, COMMIT)
\* succeeded for every participant
EveryOperationSucceeded(c) ==
    /\ Returned(c, "coordinated")
    /\ \A k \in DOMAIN call[c].log : call[c].log[k].ok

AllCommitted(c) ==
    /\ call[c].atReturn.success
    /\ call[c].atReturn.committed = OperationIds(c)
    /\ call[c].atReturn.rolledBack = <<>>

\* C4 (as stated): coordinated mode, every participant's operation (its
\* unit of work) succeeds: success is true, committed holds one entry per
\* operation in input order, rolledBack is empty
C4_AllSucceedAllCommitted ==
    \A c \in DOMAIN call : EveryUnitOfWorkSucceeded(c) => AllCommitted(c)

\* C4 (amended): the same when, in addition, every COMMIT succeeds
C4_AllSucceedAndCommitAllCommitted ==
    \A c \in DOMAIN call : EveryOperationSucceeded(c) => AllCommitted(c)

C4_Witness ==
    \E c \in DOMAIN call :
        /\ EveryOperationSucceeded(c)
        /\ Len(call[c].operations) >= 2
        /\ Len(Events(c, "commit")) = Len(call[c].operations)

\* the rollback attempts of the call, one per prepared transaction, in order
RolledBackInOrder(c) ==
    Indices(Events(c, "rollback")) =
        [i \in DOMAIN call[c].preparedTransactions |-> call[c].preparedTransactions[i].operation]

\* the identifiers of the prepared transactions whose ROLLBACK succeeded
SucceededRollbackIds(c) ==
    LET succeeded == SelectSeq(call[c].log, LAMBDA e : e.ev = "rollback" /\ e.ok)
    IN  [k \in DOMAIN succeeded |-> getDatabaseId(call[c].operations[succeeded[k].i].database)]

\* C3: coordinated mode, all prepares succeed and a unit of work fails: the
\* result has no committed participant (no partial commit) and rolledBack
\* names the participants that had prepared (those whose ROLLBACK went
\* through; a ROLLBACK that itself fails is the case of C6 and C10)
C3_NoPartialCommit ==
    \A c \in DOMAIN call :
        (Returned(c, "coordinated") /\ AllPrepared(c) /\ Failed(c, "unit") # <<>>) =>
            /\ call[c].atReturn.committed = <<>>
            /\ RolledBackInOrder(c)
            /\ call[c].atReturn.rolledBack = SucceededRollbackIds(c)

\* C6 (as stated): a prepare fails: no unit of work is invoked, every
\* prepared transaction is rolled back and recorded in rolledBack, nothing is
\* committed, success is false
C6_PrepareFailureRollsBackAll ==
    \A c \in DOMAIN call :
        (Returned(c, "coordinated") /\ Failed(c, "prepare") # <<>>) =>
            /\ Events(c, "unit") = <<>>
            /\ call[c].atReturn.rolledBack = PreparedIds(c)
            /\ call[c].atReturn.committed = <<>>
            /\ Events(c, "commit") = <<>>
            /\ ~call[c].atReturn.success

\* C6 (amended): a prepare fails: no unit of work is invoked, every prepared
\* transaction gets one rollback attempt, rolledBack records those whose
\* ROLLBACK succeeded, nothing is committed, success is false
C6_PrepareFailureAttemptsRollbackOfAll ==
    \A c \in DOMAIN call :
        (Returned(c, "coordinated") /\ Failed(c, "prepare") # <<>>) =>
            /\ Events(c, "unit") = <<>>
            /\ RolledBackInOrder(c)
            /\ call[c].atReturn.rolledBack = SucceededRollbackIds(c)
            /\ Len(Failed(c, "rollback")) =
                   Len(call[c].preparedTransactions) - Len(call[c].atReturn.rolledBack)
            /\ call[c].atReturn.committed = <<>>
            /\ Events(c, "commit") = <<>>
            /\ ~call[c].atReturn.success

C6_Witness ==
    \E c \in DOMAIN call :
        /\ Returned(c, "coordinated")
        /\ Failed(c, "prepare") # <<>>
        /\ Len(call[c].preparedTransactions) >= 2
        /\ Failed(c, "rollback") # <<>>
        /\ call[c].atReturn.rolledBack # <<>>


\* C7: the prepare phase attempts every operation once, in input order,
\* whatever failed before; no unit of work, COMMIT or ROLLBACK starts before
\* the last prepare attempt is over; each failed prepare adds one error
C7_EveryOperationPreparedFirst ==
    \A c \in DOMAIN call :
        call[c].mode = "coordinated" =>
            LET log == call[c].log
                prepares == Events(c, "prepare")
                failed == Failed(c, "prepare")
                errors == call[c].result.errors
            IN  /\ Indices(prepares) = [k \in 1..Len(prepares) |-> k]
                /\ Len(prepares) <= Len(call[c].operations)
                /\ \A k \in DOMAIN log :
                      log[k].ev \in {"unit", "commit", "rollback"} =>
                          /\ Len(prepares) = Len(call[c].operations)
                          /\ \A j \in DOMAIN log : log[j].ev = "prepare" => j < k
                /\ Returned(c, "coordinated") => Len(prepares) = Len(call[c].operations)
                /\ Len(errors) >= Len(failed)
                /\ \A k \in DOMAIN failed :
                      errors[k].database = getDatabaseId(call[c].operations[failed[k].i].database)
                /\ (\A k \in DOMAIN log : log[k].ev = "prepare") => Len(errors) = Len(failed)

C7_Witness ==
    \E c \in DOMAIN call :
        /\ Returned(c, "coordinated")
        /\ Len(call[c].operations) >= 3
        /\ ~call[c].log[1].ok
        /\ Events(c, "rollback") # <<>>
        /\ Len(Failed(c, "prepare")) >= 2

\* C8: saga, operation k fails: the compensations of the operations before k
\* run once each, in strictly decreasing index order, and none runs for
\* operation k or a later one
C8_CompensationsInReverseOrder ==
    \A c \in DOMAIN call :
        (Returned(c, "saga") /\ Failed(c, "saga") # <<>>) =>
            LET k == Failed(c, "saga")[1].i
                ran == Indices(Events(c, "compensation"))
            IN  /\ \A j \in 1..(Len(ran) - 1) : ran[j] > ran[j + 1]
                /\ Range(ran) = {i \in 1..(k - 1) : i \in DOMAIN call[c].compensations}

C8_Witness ==
    \E c \in DOMAIN call :
        /\ Returned(c, "saga")
        /\ Failed(c, "saga") # <<>>
        /\ Indices(Events(c, "compensation")) = <<2, 1>>

\* the failures the engines answered during the call
Failures(c) == SelectSeq(call[c].log, LAMBDA e : ~e.ok)
Rejections(c) == {i \in DOMAIN call[c].settled : call[c].settled[i] = "rejected"}

Finalizations(c) == SelectSeq(call[c].log, LAMBDA e : e.ev \in {"commit", "rollback"})

\* C10: a failed COMMIT or ROLLBACK is appended to errors and does not stop
\* the finalize phase: every prepared context gets its attempt
C10_FinalizeIsBestEffort ==
    \A c \in DOMAIN call :
        Returned(c, "coordinated") =>
            LET attempts == Finalizations(c)
                failed == SelectSeq(attempts, LAMBDA e : ~e.ok)
                errors == SelectSeq(call[c].atReturn.errors,
                                    LAMBDA e : e.error \in {CommitFailed, RollbackFailed})
            IN  /\ Indices(attempts) =
                       [i \in DOMAIN call[c].preparedTransactions |->
                           call[c].preparedTransactions[i].operation]
                /\ errors =
                       [k \in DOMAIN failed |->
                           [database |-> getDatabaseId(call[c].operations[failed[k].i].database),
                            error |-> IF failed[k].ev = "commit" THEN CommitFailed
                                      ELSE RollbackFailed]]

C10_Witness ==
    \E c \in DOMAIN call :
        /\ Returned(c, "coordinated")
        /\ Len(Finalizations(c)) >= 3
        /\ ~Finalizations(c)[1].ok
        /\ Finalizations(c)[3].ok


Min(a, b) == IF a < b THEN a ELSE b

\* C11: saga: a failing compensation is appended to errors as its own entry
\* and the remaining compensations are still attempted, each once
C11_CompensationsAreBestEffort ==
    \A c \in DOMAIN call :
        (Returned(c, "saga") /\ Failed(c, "saga") # <<>>) =>
            LET k == Failed(c, "saga")[1].i
                n == Min(k - 1, Len(call[c].compensations))
                attempts == Events(c, "compensation")
                failed == Failed(c, "compensation")
                errors == SelectSeq(call[c].atReturn.errors,
                                    LAMBDA e : e.error = CompensationFailed)
            IN  /\ Indices(attempts) = [j \in 1..n |-> n - j + 1]
                /\ errors =
                       [j \in DOMAIN failed |->
                           [database |-> getDatabaseId(call[c].operations[failed[j].i].database),
                            error |-> CompensationFailed]]
                /\ Len(call[c].atReturn.errors) = 1 + Len(failed)

C11_Witness ==
    \E c \in DOMAIN call :
        /\ Returned(c, "saga")
        /\ Len(Events(c, "compensation")) = 2
        /\ ~Events(c, "compensation")[1].ok
        /\ Events(c, "compensation")[2].ok


InFlight(c) == call[c].pc \in {"prepare", "execute", "commit", "rollback", "return"}

\* C12: the transaction id of executeCoordinatedTransaction is in the Active
\* Transaction Registry from the start of prepare to the end of finalize, is
\* absent from getActiveTransactions() once the call has returned, whatever
\* the outcome, and a call that finishes leaves the entries of the other
\* calls in flight alone
C12_RegisteredWhileInFlight ==
    \A c \in DOMAIN call :
        call[c].mode = "coordinated" =>
            /\ InFlight(c) =>
                  /\ c \in getActiveTransactions
                  /\ activeTransactions[c].databases = OperationIds(c)
            /\ call[c].returned => c \notin getActiveTransactions
            /\ call[c].pc = "span" => c \notin getActiveTransactions

C12_Witness ==
    \E c, d \in DOMAIN call :
        /\ c # d
        /\ call[c].returned
        /\ Failures(c) # <<>>
        /\ call[d].pc = "execute"
        /\ getActiveTransactions = {d}


TimedOut(c) == call[c].mode = "eventual" /\ Events(c, "timeout") # <<>>

Running(c) == {i \in DOMAIN call[c].settled : call[c].settled[i] = "running"}
Fulfilled(c) == {i \in DOMAIN call[c].settled : call[c].settled[i] = "fulfilled"}

\* C13: the timeout of executeEventuallyConsistent is advisory: when the
\* timer fires the call returns, no running operation is cancelled, and
\* each of them can still settle after the call has returned
C13_TimeoutIsAdvisory ==
    \A c \in DOMAIN call :
        TimedOut(c) =>
            /\ \A i \in DOMAIN call[c].settled :
                  call[c].settled[i] \in {"running", "fulfilled", "rejected"}
            /\ call[c].pc \in {"return", "done"}
            /\ call[c].returned =>
                  \A i \in Running(c) :
                      ENABLED SettleOperation(c, i, TRUE) /\ ENABLED SettleOperation(c, i, FALSE)

C13_Witness ==
    \E c \in DOMAIN call :
        /\ TimedOut(c)
        /\ call[c].returned
        /\ Len(call[c].operations) >= 2
        /\ call[c].atReturn.committed = <<>>
        /\ call[c].operationPromise = "resolved"
        /\ call[c].result.committed # <<>>

\* C14: eventually consistent mode: whenever the caller holds the result,
\* and in particular when the call returned on timeout, every operation that
\* has settled is reflected in committed (fulfilled) or errors (rejected),
\* whether or not other operations are still running
C14_SettledIsRecorded ==
    \A c \in DOMAIN call :
        (call[c].mode = "eventual" /\ call[c].returned /\ Events(c, "span") = <<>>) =>
            /\ Len(call[c].result.committed) = Cardinality(Fulfilled(c))
            /\ Len(call[c].result.errors) = Cardinality(Rejections(c))


\* the operations of the call whose participant is neither a relational nor
\* a document-store handle
Unsupported(c) ==
    {i \in DOMAIN call[c].operations : call[c].operations[i].database \in OtherHandles}

UnsupportedErrors(c) ==
    SelectSeq(call[c].result.errors, LAMBDA e : e.error = "Unsupported database type")

C17_EmptyOperationsList ==
    \A c \in DOMAIN call :
        (Returned(c, "coordinated") /\ call[c].operations = <<>>) =>
            /\ call[c].atReturn.success
            /\ call[c].atReturn.committed = <<>>
            /\ call[c].atReturn.rolledBack = <<>>
            /\ call[c].atReturn.errors = <<>>
            /\ getActiveTransactions = {}
            /\ call[c].log = <<>>

C17_Witness ==
    \E c \in DOMAIN call :
        /\ Returned(c, "coordinated")
        /\ call[c].operations = <<>>
        /\ call[c].promise = "fulfilled"


\* C16: checkConsistency invokes the predicate once and never throws: a
\* predicate that returns b gives isConsistent = b, a predicate that fails
\* gives isConsistent = false with the error message in details
C16_CheckConsistencyNeverThrows ==
    \A c \in DOMAIN call :
        call[c].mode = "check" =>
            /\ call[c].invocations <= 1
            /\ call[c].promise # "rejected"
            /\ call[c].pc = "done" =>
                  /\ call[c].invocations = 1
                  /\ call[c].promise = "fulfilled"
                  /\ call[c].answer = "true" => call[c].value.isConsistent
                  /\ call[c].answer = "false" => ~call[c].value.isConsistent
                  /\ call[c].answer = "throws" =>
                        /\ ~call[c].value.isConsistent
                        /\ call[c].value.details = [error |-> "check failed"]

C16_Witness ==
    \E c \in DOMAIN call :
        /\ call[c].mode = "check"
        /\ call[c].pc = "done"
        /\ call[c].answer = "throws"
        /\ Len(call[c].databases) >= 2


\* the lifecycle of a handle as the specification draws it
HandleTransitions ==
    { <<"disconnected", "connecting">>, <<"connecting", "connected">>,
      <<"connected", "disconnecting">>, <<"disconnecting", "disconnected">>,
      <<"connecting", "disconnected">> }

\* the connect() / disconnect() call made by this step, if any
CallMade == Len(call') = Len(call) + 1

NewestCall == call'[Len(call')]

\* C18: in every history of connect() and disconnect() calls the state of a
\* handle only moves along disconnected -> connecting -> connected ->
\* disconnecting -> disconnected, or connecting -> disconnected
C18_TransitionsAreSequential ==
    [][\A database \in EngineHandles :
           state'[database] # state[database] =>
               <<state[database], state'[database]>> \in HandleTransitions]_vars

\* C19: connect() on a handle that is connecting, connected or disconnecting
\* changes no state, makes no pool and resolves; connect() calls alone, once
\* they have all settled without a failure, leave the handle connected
C19_ConnectIsNoOpUnlessDisconnected ==
    /\ [][(CallMade /\ NewestCall.mode = "connect"
              /\ state[NewestCall.database] # "disconnected") =>
             /\ state' = state
             /\ pool' = pool
             /\ NewestCall.noop
             /\ NewestCall.pc = "done"
             /\ NewestCall.promise = "fulfilled"]_vars
    /\ [][\A c \in DOMAIN call :
             (call[c].mode = "connect" /\ call[c].noop) =>
                 (pool'[call[c].database] # c /\ call'[c] = call[c])]_vars
    /\ [](\A database \in EngineHandles :
             (/\ \E c \in DOMAIN call : call[c].database = database
              /\ \A c \in DOMAIN call :
                     call[c].database = database =>
                         /\ call[c].mode = "connect"
                         /\ call[c].promise = "fulfilled")
                 => state[database] = "connected")

C19_Witness ==
    \E c, d \in DOMAIN call :
        /\ c < d
        /\ call[c].database = call[d].database
        /\ call[c].mode = "connect" /\ call[c].attempt = "succeeded"
        /\ call[d].mode = "connect" /\ call[d].noop
        /\ call[d].seen = "connecting"
        /\ state[call[c].database] = "connected"

\* C20: when the connection attempt of connect() fails the state goes back
\* to disconnected and the call rejects; a connect() made on the
\* disconnected handle then makes an attempt of its own
C20_FailedConnectRevertsAndRejects ==
    /\ [][\A c \in DOMAIN call :
             (call[c].mode = "connect" /\ call[c].attempt # "failed"
                  /\ call'[c].attempt = "failed") =>
                 /\ state'[call[c].database] = "disconnected"
                 /\ call'[c].promise = "rejected"
                 /\ call'[c].pc = "done"]_vars
    /\ [][(CallMade /\ NewestCall.mode = "connect"
              /\ state[NewestCall.database] = "disconnected") =>
             /\ ~NewestCall.noop
             /\ NewestCall.promise = "pending"
             /\ state'[NewestCall.database] = "connecting"]_vars
    /\ [][\A c \in DOMAIN call :
             (call[c].mode = "connect" /\ call[c].attempt = "none"
                  /\ call'[c].attempt = "pending") =>
                 (pool'[call[c].database] = c /\ pool[call[c].database] # c)]_vars

C20_Witness ==
    \E c, d \in DOMAIN call :
        /\ c < d
        /\ call[c].database = call[d].database
        /\ call[c].mode = "connect" /\ call[c].attempt = "failed"
        /\ call[c].seen = "disconnected" /\ call[c].promise = "rejected"
        /\ call[d].mode = "connect" /\ call[d].seen = "disconnected"
        /\ call[d].attempt = "succeeded"
        /\ pool[call[d].database] = d


\* the clients a call has leased
LeasedBy(c) == {k \in DOMAIN clients : clients[k].owner = c}

\* C21: query, leaseClient, transaction and transactionalTest on a handle
\* whose state is not connected fail with 'Database is not connected', lease
\* no connection and leave the state as it was; isConnected() is true exactly
\* when the state is connected
C21_NotConnectedIsRefused ==
    /\ [](\A c \in DOMAIN call :
             (call[c].mode \in ClientOperations /\ call[c].seen # "connected") =>
                 /\ call[c].pc = "done"
                 /\ call[c].promise = "rejected"
                 /\ call[c].error = DatabaseNotConnected
                 /\ call[c].log = <<>>
                 /\ LeasedBy(c) = {})
    /\ [][(CallMade /\ state[NewestCall.database] # "connected") =>
             (state' = state /\ pool' = pool /\ clients' = clients)]_vars
    /\ [](\A database \in PostgresHandles :
             isConnected(database) <=> state[database] = "connected")

C21_Witness ==
    \E c, d \in DOMAIN call :
        /\ call[c].mode = "transaction" /\ call[d].mode = "leaseClient"
        /\ call[c].seen = "disconnected" /\ call[c].promise = "rejected"
        /\ call[d].promise = "rejected"
        /\ pool[call[c].database] # NoPool

\* the statements of a call that failed, in the order they were sent
FailedStatements(c) ==
    SelectSeq(call[c].log, LAMBDA e : ~e.ok /\ e.ev \in {"BEGIN", "callback", "COMMIT"})

Statements(c, ev) == {i \in DOMAIN call[c].log : call[c].log[i].ev = ev}

TransactionDone(c) ==
    /\ call[c].mode = "transaction"
    /\ call[c].pc = "done"
    /\ call[c].client # 0

\* BEGIN first, the callback after a successful BEGIN, COMMIT only after a
\* successful callback, the client released once and last
TransactionInOrder(c) ==
    LET log == call[c].log
    IN  /\ \A i \in Statements(c, "BEGIN") : i = 1
        /\ \A i \in Statements(c, "callback") :
               i = 2 /\ log[1] = [ev |-> "BEGIN", ok |-> TRUE]
        /\ \A i \in Statements(c, "COMMIT") :
               i = 3 /\ log[2] = [ev |-> "callback", ok |-> TRUE]
        /\ Statements(c, "release") = {Len(log)}
        /\ clients[call[c].client].released = 1

\* C30 as stated: when BEGIN, the callback or COMMIT fails, ROLLBACK is issued
\* and the error of that failure is rethrown
C30_TransactionRethrowsTheError ==
    \A c \in DOMAIN call :
        TransactionDone(c) =>
            /\ TransactionInOrder(c)
            /\ FailedStatements(c) = <<>> /\ Statements(c, "ROLLBACK") = {} =>
                   call[c].promise = "fulfilled"
            /\ FailedStatements(c) # <<>> =>
                   /\ Statements(c, "ROLLBACK") = {Len(call[c].log) - 1}
                   /\ call[c].promise = "rejected"
                   /\ call[c].error = FailedStatements(c)[1].ev \o " failed"

\* C30: when BEGIN, the callback or COMMIT fails, ROLLBACK is issued and the
\* call rejects: with the error of that failure when ROLLBACK succeeds, with
\* the error of ROLLBACK when it fails too; the client is released once on
\* every path
C30_TransactionRollsBackAndRejects ==
    \A c \in DOMAIN call :
        /\ (call[c].mode = "transaction" /\ call[c].pc # "done") =>
               \A k \in LeasedBy(c) : clients[k].released = 0
        /\ TransactionDone(c) =>
            /\ TransactionInOrder(c)
            /\ FailedStatements(c) = <<>> /\ Statements(c, "ROLLBACK") = {} =>
                   call[c].promise = "fulfilled"
            /\ FailedStatements(c) # <<>> =>
                   LET rollback == Len(call[c].log) - 1
                   IN  /\ Statements(c, "ROLLBACK") = {rollback}
                       /\ call[c].promise = "rejected"
                       /\ call[c].error =
                              IF call[c].log[rollback].ok
                              THEN FailedStatements(c)[1].ev \o " failed"
                              ELSE "ROLLBACK failed"

C30_Witness ==
    \E c \in DOMAIN call :
        /\ TransactionDone(c)
        /\ FailedStatements(c) = <<[ev |-> "COMMIT", ok |-> FALSE]>>
        /\ call[c].error = "ROLLBACK failed"


\* where the harness log has an event of a kind for a client
HarnessEvents(ev, client) ==
    {i \in DOMAIN harness.log : harness.log[i].ev = ev /\ harness.log[i].client = client}

\* C22: the teardown of the transactional sandbox always issues ROLLBACK on
\* the leased connection before it releases it
C22_RollbackBeforeRelease ==
    \A c \in DOMAIN call :
        (/\ call[c].mode = "afterEach" /\ Settled(c) /\ ~call[c].noop
         /\ call[c].error # "startSpan failed") =>
            \A i \in HarnessEvents("release", call[c].client) :
                \E j \in HarnessEvents("ROLLBACK", call[c].client) : j < i

\* the connections the harness has leased and not released
Outstanding == {k \in DOMAIN clients : clients[k].owner = "harness" /\ clients[k].released = 0}

\* C23: at most one connection leased by a harness instance is outstanding
C23_AtMostOneOutstanding ==
    Cardinality(Outstanding) <= 1

\* C24: a teardown without a matching setup issues no query, releases no
\* connection, leaves the harness as it was and resolves
C24_TeardownWithoutSetupIsNoOp ==
    [][(CallMade /\ NewestCall.mode = "afterEach" /\ harness.client = 0) =>
          /\ harness' = harness
          /\ clients' = clients
          /\ engine' = engine
          /\ NewestCall.pc = "done"
          /\ NewestCall.promise = "fulfilled"]_vars

C24_Witness ==
    /\ Len(call) = 3
    /\ call[1].mode = "beforeEach" /\ call[1].promise = "fulfilled"
    /\ call[2].mode = "afterEach" /\ ~call[2].noop /\ call[2].promise = "fulfilled"
    /\ call[3].mode = "afterEach" /\ call[3].noop /\ call[3].promise = "fulfilled"
    /\ HarnessEvents("release", call[2].client) # {}

\* C25: a setup followed by its teardown, with the queries of a test in
\* between, leaves the table as it was before the setup
C25_SetupTeardownRoundTrip ==
    \A i, j \in DOMAIN call :
        (/\ i < j
         /\ call[i].mode = "beforeEach" /\ call[i].promise = "fulfilled"
         /\ call[j].mode = "afterEach" /\ call[j].promise = "fulfilled"
         /\ \A k \in DOMAIN call : (i < k /\ k < j) => call[k].mode = "test")
            => call[j].table = call[i].table


\* C26: with useTransactionalIsolation every test is bracketed by BEGIN in
\* beforeEach, on a connection leased from the worker database that
\* beforeAll created
C26_TestsRunInsideATransaction ==
    \A c \in DOMAIN call :
        (/\ harness.useTransactionalIsolation
         /\ harness.beforeAll = "fulfilled"
         /\ call[c].mode = "beforeEach"
         /\ Settled(c)) =>
            /\ call[c].promise = "fulfilled"
            /\ HarnessEvents("BEGIN", call[c].client) # {}
            /\ clients[call[c].client].database = harness.database_

\* where the engines saw an event of a kind
WorkerEvents(ev) == {i \in DOMAIN harness.events : harness.events[i].ev = ev}

\* C29: the database is created through the administrative handle before
\* the scoped handle connects; schema objects are applied on the connected
\* scoped handle; the drop is issued after the scoped handle has been
\* disconnected; after each create or drop, failed or not, the
\* administrative handle is disconnected
C29_WorkerDatabaseOrdering ==
    LET events == harness.events
    IN  /\ \A i \in WorkerEvents("connect") :
               events[i].handle = "pgA" =>
                   \E j \in WorkerEvents("create") :
                       j < i /\ events[j].ok /\ events[j].handle = "adminBeforeAll"
        /\ \A i \in WorkerEvents("schema") :
               /\ events[i].scoped = "connected"
               /\ \E j \in WorkerEvents("connect") :
                      j < i /\ events[j].ok /\ events[j].handle = "pgA"
        /\ \A i \in WorkerEvents("drop") :
               /\ events[i].scoped = "disconnected"
               /\ events[i].handle = "adminAfterAll"
               /\ \E j \in WorkerEvents("disconnect") :
                      j < i /\ events[j].ok /\ events[j].handle = "pgA"
        /\ harness.pc \notin {"adminDisconnect", "dropDisconnect"} =>
               \A i \in WorkerEvents("create") \cup WorkerEvents("drop") :
                   /\ i < Len(events)
                   /\ events[i + 1].ev = "disconnect"
                   /\ events[i + 1].handle = events[i].handle
                   /\ events[i + 1].ok => state[events[i].handle] = "disconnected"

C29_Witness ==
    /\ harness.pc = "finished"
    /\ harness.afterAll = "rejected"
    /\ WorkerEvents("schema") # {}
    /\ \E i \in WorkerEvents("drop") : ~harness.events[i].ok
    /\ state["adminAfterAll"] = "disconnected"


\* C27: the handle a test obtains from getDb() is bound to the database
\* provisioned for that test, and a test observes only what it seeded itself
C27_TestsNeverShareADatabase ==
    \A t \in DOMAIN call :
        call[t].mode = "perTest" =>
            /\ call[t].obtained # Undefined => call[t].obtained = call[t].provisioned
            /\ call[t].observed \subseteq {t}


\* the events on one handle
HandleEvents(ev, handle) == {i \in WorkerEvents(ev) : harness.events[i].handle = handle}

\* C28: once the temporary database has been created and the try block is
\* entered, the dedicated handle is disconnected and then the drop is
\* started through the administrative handle before the call settles; the
\* body is invoked at most once and only with a connected handle
C28_TeardownOnEveryExitPath ==
    /\ Cardinality(WorkerEvents("handler")) <= 1
    /\ \A i \in WorkerEvents("handler") : harness.events[i].scoped = "connected"
    /\ (harness.pc = "done" /\ HandleEvents("connect", "pgA") # {}) =>
           \E i \in HandleEvents("disconnect", "pgA") :
               \E j \in HandleEvents("connect", "adminDrop") : i < j

\* success is false exactly when errors is non-empty
Coupled(result) == (~result.success) <=> (result.errors # <<>>)

\* C31: in every CoordinationResult returned by any of the three modes,
\* success is false if and only if errors is non-empty; this holds of the
\* result as it was handed to the caller and of the same object at every
\* later moment
C31_SuccessIffNoErrors ==
    \A c \in DOMAIN call :
        call[c].returned => Coupled(call[c].atReturn) /\ Coupled(call[c].result)

\* a call of each mode has returned with an error: a failed COMMIT, a failed
\* saga operation followed by a failed compensation, a rejected operation of
\* an eventually consistent call
C31_Witness ==
    \E c \in DOMAIN call :
        \/ /\ Returned(c, "coordinated")
           /\ Failed(c, "commit") # <<>>
           /\ ~call[c].atReturn.success
        \/ /\ Returned(c, "saga")
           /\ Len(call[c].atReturn.errors) >= 2
        \/ /\ Returned(c, "eventual")
           /\ call[c].atReturn.errors # <<>>

\* the k-th unit of work invoked is the one of the k-th operation, and the
\* context it was given is the one prepared for that operation's participant
OwnPreparedContext(c, k) ==
    LET prepared == call[c].preparedTransactions[k]
    IN  /\ Events(c, "unit")[k].i = k
        /\ prepared.operation = k
        /\ prepared.database = call[c].operations[k].database
        /\ IF prepared.database \in PostgresHandles
           THEN /\ prepared.client \in DOMAIN clients
                /\ clients[prepared.client].owner = c
                /\ clients[prepared.client].database = prepared.database
           ELSE prepared.client = prepared.database

\* the units of work that resolved among the first n entries of the log
ResolvedUnitsBefore(c, n) ==
    {j \in 1..(n - 1) : call[c].log[j].ev = "unit" /\ call[c].log[j].ok}

\* C32: executeCoordinatedTransaction invokes the units of work in input
\* order, each against its own prepared context; no unit of work is invoked
\* after one that failed; no COMMIT is issued before every unit of work
\* succeeded
C32_UnitsOfWorkInOrderThenCommit ==
    \A c \in DOMAIN call :
        call[c].mode = "coordinated" =>
            /\ \A k \in DOMAIN Events(c, "unit") :
                  /\ OwnPreparedContext(c, k)
                  /\ k < Len(Events(c, "unit")) => Events(c, "unit")[k].ok
            /\ \A n \in DOMAIN call[c].log :
                  call[c].log[n].ev = "commit" =>
                      Cardinality(ResolvedUnitsBefore(c, n)) = Len(call[c].operations)

\* a call of three operations whose second unit of work failed has returned
C32_Witness ==
    \E c \in DOMAIN call :
        /\ Returned(c, "coordinated")
        /\ Len(call[c].operations) = 3
        /\ Len(Events(c, "unit")) = 2
        /\ Len(Failed(c, "unit")) = 1
        /\ Events(c, "commit") = <<>>

\* the positions in the log of the COMMIT and ROLLBACK attempts made for the
\* operation i of the call
FinalizationsOf(c, i) ==
    {n \in DOMAIN call[c].log :
        call[c].log[n].ev \in {"commit", "rollback"} /\ call[c].log[n].i = i}

\* the prepared transactions of relational participants
RelationalPrepared(c) ==
    {k \in DOMAIN call[c].preparedTransactions :
        call[c].preparedTransactions[k].database \in PostgresHandles}

\* C33: a prepared transaction of a relational participant gets at most one
\* finalization attempt, a COMMIT or a ROLLBACK and never both, and nothing
\* is done with it after that attempt: no later entry of the log concerns
\* its operation, and a context that was committed or rolled back never
\* changes again
C33_FinalizedAtMostOnce ==
    /\ [](\A c \in DOMAIN call :
            call[c].mode = "coordinated" =>
                \A k \in RelationalPrepared(c) :
                    LET i == call[c].preparedTransactions[k].operation
                    IN  /\ Cardinality(FinalizationsOf(c, i)) <= 1
                        /\ \A n \in FinalizationsOf(c, i) :
                              \A later \in (n + 1)..Len(call[c].log) :
                                  call[c].log[later].i # i)
    /\ [][\A k \in DOMAIN clients :
            (clients[k].tx \in {"committed", "rolledBack"} \/ clients[k].released > 0)
                => clients'[k] = clients[k]]_vars

\* a call with two relational participants has returned after one attempt for
\* each of them, one of which failed
C33_Witness ==
    \E c \in DOMAIN call :
        /\ Returned(c, "coordinated")
        /\ Cardinality(RelationalPrepared(c)) >= 2
        /\ \A k \in RelationalPrepared(c) :
              Cardinality(FinalizationsOf(c, call[c].preparedTransactions[k].operation)) = 1
        /\ Len(Failed(c, "commit")) = 1

\* every operation of the saga was run and resolved
EverySagaOperationSucceeded(c) ==
    /\ Len(Events(c, "saga")) = Len(call[c].operations)
    /\ Failed(c, "saga") = <<>>

\* C34: executeSagaTransaction runs its operations one after the other in
\* input order, operation i+1 only after operation i succeeded, so that no
\* operation is started after one that failed; it prepares nothing and
\* leases no client, the operations run on the handles themselves; when
\* every operation succeeded no compensation runs and committed lists every
\* participant in input order
C34_SagaIsSequential ==
    \A c \in DOMAIN call :
        call[c].mode = "saga" =>
            /\ \A k \in DOMAIN Events(c, "saga") :
                  /\ Events(c, "saga")[k].i = k
                  /\ k < Len(Events(c, "saga")) => Events(c, "saga")[k].ok
            /\ Events(c, "prepare") = <<>>
            /\ call[c].preparedTransactions = <<>>
            /\ \A k \in DOMAIN clients : clients[k].owner # c
            /\ Events(c, "compensation") # <<>> => Failed(c, "saga") # <<>>
            /\ (Returned(c, "saga") /\ EverySagaOperationSucceeded(c)) =>
                  /\ Events(c, "compensation") = <<>>
                  /\ call[c].atReturn.committed = OperationIds(c)
                  /\ call[c].atReturn.rolledBack = <<>>
                  /\ call[c].atReturn.success

\* a saga of at least two operations, with compensations given, has returned
\* after all of them succeeded
C34_Witness ==
    \E c \in DOMAIN call :
        /\ Returned(c, "saga")
        /\ Len(call[c].operations) >= 2
        /\ call[c].compensations # <<>>
        /\ EverySagaOperationSucceeded(c)

\* C35: when the afterEach of withPerTestMongoDatabase has run for a test,
\* the handle its beforeEach connected is not left connected, whether or not
\* dropping the database succeeded (the closure variable still names the
\* handle of this test: no other test has started)
C35_TeardownAlwaysDisconnects ==
    \A t \in DOMAIN call :
        (/\ call[t].mode = "perTest"
         /\ call[t].pc = "done"
         /\ call[t].provisioned # Undefined
         /\ harness.database_ = call[t].provisioned)
            => state[call[t].provisioned] # "connected"

\* the errors of a result that report a failed COMMIT, as participant
\* identifiers in the order they were appended
CommitErrors(result) ==
    LET errors == SelectSeq(result.errors, LAMBDA e : e.error = CommitFailed)
    IN  [k \in DOMAIN errors |-> errors[k].database]

\* C36: executeCoordinatedTransaction, every unit of work succeeded and a
\* COMMIT then failed: every participant still got its COMMIT, those before
\* and after the failed one are committed and none is rolled back; the
\* result has success false, one 'Commit failed: ...' error for each
\* participant whose COMMIT failed and no other error, an empty rolledBack,
\* and a committed list that names every participant, the failed one too
C36_FailedCommitIsOnlyReported ==
    \A c \in DOMAIN call :
        (EveryUnitOfWorkSucceeded(c) /\ Failed(c, "commit") # <<>>) =>
            /\ Indices(Events(c, "commit")) = [i \in DOMAIN call[c].operations |-> i]
            /\ Events(c, "rollback") = <<>>
            /\ \A k \in RelationalPrepared(c) :
                  LET prepared == call[c].preparedTransactions[k]
                  IN  Events(c, "commit")[k].ok =>
                          clients[prepared.client].tx = "committed"
            /\ ~call[c].atReturn.success
            /\ call[c].atReturn.rolledBack = <<>>
            /\ call[c].atReturn.committed = OperationIds(c)
            /\ Len(call[c].atReturn.errors) = Len(Failed(c, "commit"))
            /\ CommitErrors(call[c].atReturn) =
                  [k \in DOMAIN Failed(c, "commit") |->
                      getDatabaseId(call[c].operations[Failed(c, "commit")[k].i].database)]

\* three participants, the COMMIT of the second one failed, the COMMITs of
\* the first and the third succeeded
C36_Witness ==
    \E c \in DOMAIN call :
        /\ EveryUnitOfWorkSucceeded(c)
        /\ Len(Events(c, "commit")) = 3
        /\ Events(c, "commit")[1].ok
        /\ ~Events(c, "commit")[2].ok
        /\ Events(c, "commit")[3].ok
        /\ call[c].operations[3].database \in PostgresHandles

\* the prepared transactions of document-store participants
DocumentPrepared(c) ==
    {k \in DOMAIN call[c].preparedTransactions :
        call[c].preparedTransactions[k].database \in MongoHandles}

\* the document-store participants of the call that rollbackAll went over
DocumentRolledBack(c) ==
    {k \in DOMAIN Events(c, "rollback") :
        call[c].operations[Events(c, "rollback")[k].i].database \in MongoHandles}

\* the writes that the units of work of the call made through a
\* document-store handle and that are in the engine
DocumentWrites(c) == {k \in DOMAIN engine : engine[k].owner = c}

\* C37: executeCoordinatedTransaction and a document-store participant: its
\* prepared context is the handle itself and nothing is leased or begun for
\* it; the write of its unit of work is applied when the unit of work
\* resolves and nothing removes it afterwards; on the rollback path its
\* identifier is appended to rolledBack all the same, so that a returned
\* result names it in rolledBack while its write is still in the engine
C37_DocumentStoreIsNotTransactional ==
    /\ [](\A c \in DOMAIN call :
            call[c].mode = "coordinated" =>
                /\ \A k \in DocumentPrepared(c) :
                      call[c].preparedTransactions[k].client =
                          call[c].preparedTransactions[k].database
                /\ \A k \in DOMAIN clients : clients[k].database \notin MongoHandles
                /\ Cardinality(DocumentWrites(c)) =
                      Cardinality({k \in DOMAIN Events(c, "unit") :
                                      /\ Events(c, "unit")[k].ok
                                      /\ k \in DocumentPrepared(c)})
                /\ call[c].returned =>
                      \A database \in MongoHandles :
                          Len(SelectSeq(call[c].atReturn.rolledBack,
                                        LAMBDA id : id = getDatabaseId(database)))
                            = Cardinality({k \in DocumentRolledBack(c) :
                                  call[c].operations[Events(c, "rollback")[k].i].database
                                      = database}))
    /\ [][\A k \in DOMAIN engine : k \in DOMAIN engine' /\ engine'[k] = engine[k]]_vars

\* a returned result names a document-store participant in rolledBack and
\* the write of its unit of work is in the engine
C37_Witness ==
    \E c \in DOMAIN call :
        /\ Returned(c, "coordinated")
        /\ DocumentRolledBack(c) # {}
        /\ \E database \in MongoHandles :
              getDatabaseId(database) \in Range(call[c].atReturn.rolledBack)
        /\ DocumentWrites(c) # {}
        /\ ~call[c].atReturn.success

Rejected(c) == {i \in DOMAIN call[c].settled : call[c].settled[i] = "rejected"}

\* the identifiers of the participants whose operation fulfilled, in input
\* order
FulfilledIds(c) ==
    LET fulfilled == SelectSeq([i \in DOMAIN call[c].operations |-> i],
                               LAMBDA i : i \in Fulfilled(c))
    IN  [k \in DOMAIN fulfilled |-> getDatabaseId(call[c].operations[fulfilled[k]].database)]

\* C38: executeEventuallyConsistent whose timer fired before every operation
\* had settled: what the caller receives has success true and empty
\* committed and errors, whatever had settled by then; the result object
\* stays like that while an operation is running; once the last operation
\* has settled the same object holds the fulfilled participants in
\* committed, one error per rejected operation, and success false if there
\* is one
C38_ResultChangesAfterTimeoutReturn ==
    \A c \in DOMAIN call :
        (TimedOut(c) /\ call[c].returned) =>
            /\ call[c].atReturn.success
            /\ call[c].atReturn.committed = <<>>
            /\ call[c].atReturn.errors = <<>>
            /\ Running(c) # {} => call[c].result = call[c].atReturn
            /\ Running(c) = {} =>
                  /\ call[c].result.committed = FulfilledIds(c)
                  /\ Len(call[c].result.errors) = Cardinality(Rejected(c))
                  /\ call[c].result.success = (Rejected(c) = {})

\* the caller received success true, an operation had already rejected by
\* then or did so later, and the object now has success false
C38_Witness ==
    \E c \in DOMAIN call :
        /\ TimedOut(c)
        /\ call[c].returned
        /\ call[c].atReturn.success
        /\ ~call[c].result.success
        /\ call[c].result.errors # <<>>
        /\ call[c].result.committed # <<>>

\* C39: in every interleaving of connect() and disconnect(), a handle in
\* state connected has its pool / client (non-null), so that query and
\* leaseClient are not refused with 'Database is not connected' while
\* isConnected() is true
C39_ConnectedHasPool ==
    \A database \in EngineHandles :
        isConnected(database) => pool[database] # NoPool /\ ~notConnected(database)

\* the call c settles in this step
Settles(c) == call[c].pc # "done" /\ call'[c].pc = "done"

\* the other calls on the handle of c that got past the state test
OtherAttempts(c) ==
    {d \in DOMAIN call :
        d # c /\ call[d].database = call[c].database /\ ~call[d].noop}

\* C40: disconnect() on a disconnected handle changes nothing and resolves;
\* a disconnect() that fails rejects and leaves the state and the pool as
\* they are, so that a handle that was connected when disconnect() was
\* called, with no other call at work on it, is left disconnecting; on a
\* disconnecting handle connect() changes nothing and resolves, and
\* disconnect() makes a new attempt, which brings the handle to
\* disconnected exactly when it succeeds
C40_FailedDisconnectLeavesDisconnecting ==
    /\ [][(CallMade /\ NewestCall.mode = "disconnect"
              /\ state[NewestCall.database] = "disconnected") =>
             /\ state' = state
             /\ pool' = pool
             /\ NewestCall.noop
             /\ NewestCall.promise = "fulfilled"]_vars
    /\ [][\A c \in DOMAIN call :
             (call[c].mode = "disconnect" /\ Settles(c)) =>
                 /\ call'[c].attempt = "failed" => call'[c].promise = "rejected"
                 /\ call'[c].promise = "rejected" => (state' = state /\ pool' = pool)
                 /\ call'[c].promise = "fulfilled" =>
                       state'[call[c].database] = "disconnected"
                 /\ (/\ call'[c].promise = "rejected"
                     /\ call[c].seen = "connected"
                     /\ Cardinality(OtherAttempts(c)) = 1)
                       => state'[call[c].database] = "disconnecting"]_vars
    /\ [][(CallMade /\ state[NewestCall.database] = "disconnecting") =>
             /\ pool' = pool
             /\ state' = state
             /\ NewestCall.mode = "connect" =>
                   (NewestCall.noop /\ NewestCall.promise = "fulfilled")
             /\ NewestCall.mode = "disconnect" =>
                   (~NewestCall.noop /\ NewestCall.promise = "pending")]_vars

\* a connected handle whose disconnect() failed is disconnecting, and a
\* connect() made on it afterwards did nothing
C40_Witness ==
    \E c, d, e \in DOMAIN call :
        /\ c < d /\ d < e
        /\ call[c].database = call[d].database
        /\ call[d].database = call[e].database
        /\ call[c].mode = "connect" /\ call[c].attempt = "succeeded"
        /\ call[d].mode = "disconnect" /\ call[d].seen = "connected"
        /\ call[d].attempt = "failed" /\ call[d].promise = "rejected"
        /\ call[e].mode = "connect" /\ call[e].seen = "disconnecting" /\ call[e].noop
        /\ state[call[d].database] = "disconnecting"
        /\ pool[call[d].database] = c

====
